---- MODULE Spec2Model ----
(***************************************************************************)
(* Verification model of screeps-starter-rust: the reservation ledger      *)
(* (src/task.rs), the role proposal strategies (src/role/*.rs), the task   *)
(* dispatch (src/task.rs run_task) and the starter loop (src/lib.rs).      *)
(***************************************************************************)
EXTENDS Integers, Sequences, FiniteSets, TLC

VARIABLES
    reserved_tasks,   \* ShardState.reserved_tasks: HashMap<Task, u32>
    net,              \* history: per task, sum of claimed minus sum of released amounts
    lastOp,           \* history: the ledger operation of the last step
    nOps,             \* number of ledger operations made so far
    world,            \* the world view of the current tick
    game_time,        \* game::time()
    lastProposal,     \* history: the last find_task call and what it returned
    nProposed,        \* number of find_task calls of the current pass
    aborted,          \* a panic has ended the tick
    workers,          \* the registry: worker id -> role, store and task queue
    phase,            \* the orchestrator's position in the tick
    cursor,           \* the worker the current phase has reached
    goals,            \* the MovementGoals buffered for the movement phase
    cpu,              \* the compute-budget signals the movement phase last read
    issued,           \* history: the commands sent to the world in this tick
    released,         \* history: per queue entry, how often its claim was released
    lastResult,       \* history: the last executed entry and its TaskResult
    creep_targets,    \* CREEP_TARGETS: HashMap<String, CreepTarget> of the starter loop
    game,             \* what game::creeps(), game::spawns() and the room show this tick
    pc,               \* the position of game_loop in its two for loops
    commands,         \* history: the calls game_loop made on game objects this tick
    lastRun           \* history: the last run_creep call and what it did

historyVars == <<net, lastOp, nOps>>

passVars == <<world, game_time, lastProposal, nProposed, aborted>>

engineVars == <<workers, phase, cursor, goals, cpu, issued, released, lastResult>>

starterVars == <<creep_targets, game, pc, commands, lastRun>>

vars == <<reserved_tasks, net, lastOp, nOps, world, game_time, lastProposal, nProposed,
          aborted, workers, phase, cursor, goals, cpu, issued, released, lastResult,
          creep_targets, game, pc, commands, lastRun>>

----------------------------------------------------------------------------
(* Integers                                                                *)

\* u32::MAX. TLC's integers are 32-bit signed, so the width of u32 is scaled
\* from 32 to 16 bits: every amount of the model lies in 0..U32Max and the
\* saturating operations clip there.
U32Max == 65535

Min(a, b) == IF a < b THEN a ELSE b

Max(a, b) == IF a > b THEN a ELSE b

\* u32::saturating_add
SaturatingAdd(a, b) == IF a + b > U32Max THEN U32Max ELSE a + b

\* u32::saturating_sub
SaturatingSub(a, b) == IF a - b < 0 THEN 0 ELSE a - b

----------------------------------------------------------------------------
(* Task: the enum of src/task.rs. A value is a record of its variant name  *)
(* and its payload (object id, resource type, number).                     *)

NoId == "none"

MkTask(kind, id, n) == [kind |-> kind, id |-> id, n |-> n]

WaitToSpawn == MkTask("WaitToSpawn", NoId, 0)
IdleUntil(tick) == MkTask("IdleUntil", NoId, tick)
MoveToPosition(pos, range) == MkTask("MoveToPosition", pos, range)
HarvestEnergyUntilFull(id) == MkTask("HarvestEnergyUntilFull", id, 0)
HarvestEnergyForever(id) == MkTask("HarvestEnergyForever", id, 0)
Upgrade(id) == MkTask("Upgrade", id, 0)
Build(id) == MkTask("Build", id, 0)
Repair(id) == MkTask("Repair", id, 0)
TakeFromResource(id) == MkTask("TakeFromResource", id, 0)
\* the ResourceType payload is always ResourceType::Energy in the roles
TakeFromStructure(id) == MkTask("TakeFromStructure", id, 0)
DeliverToStructure(id) == MkTask("DeliverToStructure", id, 0)

----------------------------------------------------------------------------
(* Reservation ledger                                                      *)

EmptyLedger == <<>>

\* task_reservations.get(&task).unwrap_or(&0)
Current(r, task) == IF task \in DOMAIN r THEN r[task] ELSE 0

Without(r, task) == [t \in (DOMAIN r) \ {task} |-> r[t]]

\* a claim that wraps around instead of saturating
AddReservationWrapping(r, task, amount) ==
    IF task \in DOMAIN r
    THEN [r EXCEPT ![task] = (@ + amount) % (U32Max + 1)]
    ELSE r @@ (task :> amount)

\* Task::add_reservation_with_amount:
\*   reserved_tasks.entry(*self).and_modify(|r| *r = r.saturating_add(amount)).or_insert(amount)
AddReservationWithAmount(r, task, amount) ==
    IF task \in DOMAIN r
    THEN [r EXCEPT ![task] = SaturatingAdd(@, amount)]
    ELSE r @@ (task :> amount)

\* a release that keeps the entry when it reaches zero
RemoveReservationKeepZero(r, task, amount) ==
    IF task \in DOMAIN r
    THEN [r EXCEPT ![task] = SaturatingSub(@, amount)]
    ELSE r

\* release(identity, amount): saturating-subtracts, removing the entry when the
\* result is zero
RemoveReservation(r, task, amount) ==
    LET v == SaturatingSub(Current(r, task), amount)
    IN  IF v = 0 THEN Without(r, task) ELSE [r EXCEPT ![task] = v]

----------------------------------------------------------------------------
(* The world view of one tick: what game::rooms(), room.find() and the     *)
(* objects' accessors return.                                              *)

\* screeps constants REPAIR_POWER and BUILD_POWER (imported in builder.rs)
REPAIR_POWER == 100
BUILD_POWER == 5

\* crate::constants (constants.rs is not among the sources); the pickup
\* thresholds are the one the specification's scenario names
NO_TASK_IDLE_TICKS == 2
HAULER_ENERGY_PICKUP_THRESHOLD == 35
HAULER_ENERGY_WITHDRAW_THRESHOLD == 50
BUILDER_ENERGY_PICKUP_THRESHOLD == 35
BUILDER_ENERGY_WITHDRAW_THRESHOLD == 50
UPGRADER_ENERGY_PICKUP_THRESHOLD == 35
UPGRADER_ENERGY_WITHDRAW_THRESHOLD == 50
TERMINAL_ENERGY_TARGET == 100

\* enum_iterator::all::<Direction>()
Directions == {"Top", "TopRight", "Right", "BottomRight",
               "Bottom", "BottomLeft", "Left", "TopLeft"}

\* store.get_free_capacity(..).try_into().unwrap_or(0): i32 to u32
TryIntoU32(x) == IF x < 0 THEN 0 ELSE x

\* index of the first element of seq that satisfies P, 0 when there is none:
\* a `for x in ... { if P(x) { return ... } }` loop
FirstMatch(seq, P(_)) ==
    IF \E i \in 1..Len(seq) : P(seq[i])
    THEN CHOOSE i \in 1..Len(seq) : P(seq[i]) /\ \A j \in 1..(i - 1) : ~P(seq[j])
    ELSE 0

\* index of the last element of seq that satisfies P, 0 when there is none:
\* a variable overwritten on every match of a completed loop
LastMatch(seq, P(_)) ==
    IF \E i \in 1..Len(seq) : P(seq[i])
    THEN CHOOSE i \in 1..Len(seq) : P(seq[i]) /\ \A j \in (i + 1)..Len(seq) : ~P(seq[j])
    ELSE 0

----------------------------------------------------------------------------
(* TaskQueueEntry and the results of a proposal                            *)

\* TaskQueueEntry::new(task, amount, task_reservations): the entry, its claim
\* registered in the ledger
NewEntry(task, amount, r) ==
    [ok |-> TRUE,
     entry |-> [task |-> task, amount |-> amount],
     ledger |-> AddReservationWithAmount(r, task, amount)]

\* TaskQueueEntry::new(task, amount) of the roles that take no ledger
NewEntryNoLedger(task, amount, r) ==
    [ok |-> TRUE, entry |-> [task |-> task, amount |-> amount], ledger |-> r]

\* TaskQueueEntry::new_unreserved(task)
NewUnreserved(task, r) ==
    [ok |-> TRUE, entry |-> [task |-> task, amount |-> 0], ledger |-> r]

\* unimplemented!() / panic!(): no entry is returned
Panicked(r) ==
    [ok |-> FALSE, entry |-> [task |-> WaitToSpawn, amount |-> 0], ledger |-> r]

\* the fallback of every scan: IdleUntil(game::time() + NO_TASK_IDLE_TICKS)
IdleFallback(time, r) == NewUnreserved(IdleUntil(time + NO_TASK_IDLE_TICKS), r)

IsWithdrawable(s) == s.type \in {"container", "storage", "terminal"}

IsPriorityConsumer(s) == s.type \in {"spawn", "extension", "tower"}

\* a pile admitted without a look at what is already claimed on it
PileAdmitsUnclaimed(res, threshold, energy_capacity, r) ==
    /\ res.energy
    /\ res.amount >= threshold

\* the scan of room.find(find::DROPPED_RESOURCES): admission of one pile
PileAdmits(res, threshold, energy_capacity, r) ==
    /\ res.energy
    /\ res.amount >= threshold
    /\ Current(r, TakeFromResource(res.id)) + Min(res.amount, energy_capacity)
         <= res.amount

\* the scan of containers, storages and terminals: admission of one structure
WithdrawAdmits(s, threshold, energy_capacity, r) ==
    /\ IsWithdrawable(s)
    /\ s.used >= threshold
    /\ Current(r, TakeFromStructure(s.id)) + Min(s.used, energy_capacity) <= s.used

\* the number of neighbours of the source that are in the room and not a wall
HarvestPositions(source) ==
    Cardinality({d \in Directions : source.terrain[d] \notin {"Wall", "OutOfRoom"}})

----------------------------------------------------------------------------
(* role/hauler.rs                                                          *)

\* find_energy
HaulerFindEnergy(w, energy_capacity, time, r) ==
    LET i == FirstMatch(w.resources,
                 LAMBDA res : PileAdmits(res, HAULER_ENERGY_PICKUP_THRESHOLD,
                                         energy_capacity, r))
        j == FirstMatch(w.structures,
                 LAMBDA s : WithdrawAdmits(s, HAULER_ENERGY_WITHDRAW_THRESHOLD,
                                           energy_capacity, r))
    IN  IF i > 0
        THEN NewEntry(TakeFromResource(w.resources[i].id),
                      Min(w.resources[i].amount, energy_capacity), r)
        ELSE IF j > 0
        THEN NewEntry(TakeFromStructure(w.structures[j].id),
                      Min(w.structures[j].used, energy_capacity), r)
        ELSE IdleFallback(time, r)

\* a first loop that still takes the job when the claimed amount has reached
\* the free capacity
PriorityAdmitsAtCapacity(s, energy_amount, r) ==
    /\ IsPriorityConsumer(s)
    /\ TryIntoU32(s.free) > 0
    /\ Current(r, DeliverToStructure(s.id)) <= TryIntoU32(s.free)

\* find_delivery_target, first loop: "if it's not already got enough energy on
\* the way, take the job even if we'll overfill"
PriorityAdmits(s, energy_amount, r) ==
    /\ IsPriorityConsumer(s)
    /\ TryIntoU32(s.free) > 0
    /\ Current(r, DeliverToStructure(s.id)) < TryIntoU32(s.free)

\* find_delivery_target, the terminal and storage checks
BulkAdmits(s, energy_amount, r) ==
    /\ TryIntoU32(s.free) > 0
    /\ Current(r, DeliverToStructure(s.id)) + Min(energy_amount, TryIntoU32(s.free))
         <= TryIntoU32(s.free)

\* a find_delivery_target of one pass: the first structure of the enumeration
\* that admits the delivery, of whatever type
FindDeliveryTargetInOrder(w, energy_amount, time, r) ==
    LET i == FirstMatch(w.structures,
                 LAMBDA s : \/ PriorityAdmits(s, energy_amount, r)
                            \/ /\ s.type = "terminal"
                               /\ s.used < TERMINAL_ENERGY_TARGET
                               /\ BulkAdmits(s, energy_amount, r)
                            \/ /\ s.type = "storage"
                               /\ BulkAdmits(s, energy_amount, r))
    IN  IF i > 0
        THEN NewEntry(DeliverToStructure(w.structures[i].id),
                      Min(energy_amount, TryIntoU32(w.structures[i].free)), r)
        ELSE IdleFallback(time, r)

\* a find_delivery_target that reserves the target's free capacity, whatever
\* the cargo
FindDeliveryTargetReserveFree(w, energy_amount, time, r) ==
    LET i == FirstMatch(w.structures, LAMBDA s : PriorityAdmits(s, energy_amount, r))
        t == LastMatch(w.structures, LAMBDA s : s.type = "terminal")
        g == LastMatch(w.structures, LAMBDA s : s.type = "storage")
        deliver(s) == NewEntry(DeliverToStructure(s.id), TryIntoU32(s.free), r)
    IN  IF i > 0 THEN deliver(w.structures[i])
        ELSE IF /\ t > 0
                /\ w.structures[t].used < TERMINAL_ENERGY_TARGET
                /\ BulkAdmits(w.structures[t], energy_amount, r)
        THEN deliver(w.structures[t])
        ELSE IF g > 0 /\ BulkAdmits(w.structures[g], energy_amount, r)
        THEN deliver(w.structures[g])
        ELSE IdleFallback(time, r)

\* find_delivery_target
FindDeliveryTarget(w, energy_amount, time, r) ==
    LET i == FirstMatch(w.structures, LAMBDA s : PriorityAdmits(s, energy_amount, r))
        t == LastMatch(w.structures, LAMBDA s : s.type = "terminal")
        g == LastMatch(w.structures, LAMBDA s : s.type = "storage")
        deliver(s) == NewEntry(DeliverToStructure(s.id),
                               Min(energy_amount, TryIntoU32(s.free)), r)
    IN  IF i > 0 THEN deliver(w.structures[i])
        ELSE IF /\ t > 0
                /\ w.structures[t].used < TERMINAL_ENERGY_TARGET
                /\ BulkAdmits(w.structures[t], energy_amount, r)
        THEN deliver(w.structures[t])
        ELSE IF g > 0 /\ BulkAdmits(w.structures[g], energy_amount, r)
        THEN deliver(w.structures[g])
        ELSE IdleFallback(time, r)

\* Hauler::find_task
HaulerFindTask(w, store, time, r) ==
    IF w.visible
    THEN IF store.used > 0
         THEN FindDeliveryTarget(w, store.used, time, r)
         ELSE IF TryIntoU32(store.free) > 0
         THEN HaulerFindEnergy(w, TryIntoU32(store.free), time, r)
         ELSE IdleFallback(time, r)
    ELSE NewUnreserved(IdleUntil(U32Max), r)

----------------------------------------------------------------------------
(* role/builder.rs                                                         *)

\* "if the hits are below our 'watermark' to repair to as well as less than
\* half of this struture's max, repair!"
NeedsRepair(s, repair_watermark) ==
    /\ s.hitsMax # 0
    /\ s.hits < repair_watermark
    /\ s.hits * 2 < s.hitsMax

\* amount_needed of a repair: (min(repair_watermark, hits_max) - hits) / REPAIR_POWER
RepairNeeded(s, repair_watermark) ==
    (Min(repair_watermark, s.hitsMax) - s.hits) \div REPAIR_POWER

\* amount_needed of a construction site
BuildNeeded(site) == (site.progressTotal - site.progress) \div BUILD_POWER

\* find_build_or_repair_task, the repair loop
RepairAdmits(s, repair_watermark, energy_amount, r) ==
    /\ NeedsRepair(s, repair_watermark)
    /\ Current(r, Repair(s.id)) < RepairNeeded(s, repair_watermark)

\* find_build_or_repair_task, the construction loop
BuildAdmits(site, energy_amount, r) ==
    Current(r, Build(site.id)) < BuildNeeded(site)

\* find_build_or_repair_task
FindBuildOrRepairTask(w, repair_watermark, energy_amount, time, r) ==
    LET i == FirstMatch(w.structures,
                 LAMBDA s : RepairAdmits(s, repair_watermark, energy_amount, r))
        j == FirstMatch(w.sites, LAMBDA site : BuildAdmits(site, energy_amount, r))
    IN  IF i > 0 THEN NewEntry(Repair(w.structures[i].id), energy_amount, r)
        ELSE IF j > 0 THEN NewEntry(Build(w.sites[j].id), energy_amount, r)
        ELSE IdleFallback(time, r)

\* builder.rs find_energy_or_source, the source loop
BuilderHarvestAdmits(source, r) ==
    Current(r, HarvestEnergyUntilFull(source.id)) <= HarvestPositions(source)

\* builder.rs find_energy_or_source
BuilderFindEnergyOrSource(w, energy_capacity, time, r) ==
    LET i == FirstMatch(w.resources,
                 LAMBDA res : PileAdmits(res, BUILDER_ENERGY_PICKUP_THRESHOLD,
                                         energy_capacity, r))
        j == FirstMatch(w.structures,
                 LAMBDA s : WithdrawAdmits(s, BUILDER_ENERGY_WITHDRAW_THRESHOLD,
                                           energy_capacity, r))
        k == FirstMatch(w.sources, LAMBDA source : BuilderHarvestAdmits(source, r))
    IN  IF i > 0
        THEN NewEntry(TakeFromResource(w.resources[i].id),
                      Min(w.resources[i].amount, energy_capacity), r)
        ELSE IF j > 0
        THEN NewEntry(TakeFromStructure(w.structures[j].id),
                      Min(w.structures[j].used, energy_capacity), r)
        ELSE IF k > 0
        THEN NewEntry(HarvestEnergyUntilFull(w.sources[k].id), 1, r)
        ELSE IdleFallback(time, r)

\* Builder::find_task
BuilderFindTask(w, repair_watermark, store, time, r) ==
    IF w.visible
    THEN IF store.used > 0
         THEN FindBuildOrRepairTask(w, repair_watermark, store.used, time, r)
         ELSE IF TryIntoU32(store.free) > 0
         THEN BuilderFindEnergyOrSource(w, TryIntoU32(store.free), time, r)
         ELSE IdleFallback(time, r)
    ELSE NewUnreserved(IdleUntil(U32Max), r)

----------------------------------------------------------------------------
(* role/upgrader.rs                                                        *)

\* find_upgrade_task
FindUpgradeTask(w, time, r) ==
    IF Len(w.controller) > 0
    THEN NewEntry(Upgrade(w.controller[1]), 1, r)
    ELSE IdleFallback(time, r)

\* upgrader.rs find_energy_or_source, the source loop
UpgraderHarvestAdmits(source, r) ==
    Current(r, HarvestEnergyUntilFull(source.id)) < HarvestPositions(source)

\* upgrader.rs find_energy_or_source
UpgraderFindEnergyOrSource(w, energy_capacity, time, r) ==
    LET i == FirstMatch(w.resources,
                 LAMBDA res : PileAdmits(res, UPGRADER_ENERGY_PICKUP_THRESHOLD,
                                         energy_capacity, r))
        j == FirstMatch(w.structures,
                 LAMBDA s : WithdrawAdmits(s, UPGRADER_ENERGY_WITHDRAW_THRESHOLD,
                                           energy_capacity, r))
        k == FirstMatch(w.sources, LAMBDA source : UpgraderHarvestAdmits(source, r))
    IN  IF i > 0
        THEN NewEntry(TakeFromResource(w.resources[i].id),
                      Min(w.resources[i].amount, energy_capacity), r)
        ELSE IF j > 0
        THEN NewEntry(TakeFromStructure(w.structures[j].id),
                      Min(w.structures[j].used, energy_capacity), r)
        ELSE IF k > 0
        THEN NewEntry(HarvestEnergyUntilFull(w.sources[k].id), 1, r)
        ELSE IdleFallback(time, r)

\* Upgrader::find_task
UpgraderFindTask(w, store, time, r) ==
    IF w.visible
    THEN IF store.used > 0
         THEN FindUpgradeTask(w, time, r)
         ELSE IF TryIntoU32(store.free) > 0
         THEN UpgraderFindEnergyOrSource(w, TryIntoU32(store.free), time, r)
         ELSE NewUnreserved(IdleUntil(U32Max), r)
    ELSE NewUnreserved(IdleUntil(U32Max), r)

----------------------------------------------------------------------------
(* role/startup.rs: this role's find_task takes no ledger                  *)

\* find_startup_task
FindStartupTask(w, energy_amount, time, r) ==
    LET i == FirstMatch(w.structures,
                 LAMBDA s : s.type \in {"spawn", "extension"} /\ TryIntoU32(s.free) > 0)
        j == FirstMatch(w.structures,
                 LAMBDA s : s.hitsMax # 0 /\ s.hits < 10000 /\ s.hits * 2 < s.hitsMax)
    IN  IF i > 0
        THEN NewEntryNoLedger(DeliverToStructure(w.structures[i].id),
                 Min(energy_amount, TryIntoU32(w.structures[i].free)), r)
        ELSE IF j > 0
        THEN NewEntryNoLedger(Repair(w.structures[j].id), energy_amount, r)
        ELSE IF Len(w.sites) > 0
        THEN NewEntryNoLedger(Build(w.sites[1].id), energy_amount, r)
        ELSE IF Len(w.controller) > 0
        THEN NewEntryNoLedger(Upgrade(w.controller[1]), 1, r)
        ELSE IdleFallback(time, r)

\* startup.rs find_energy_or_source
StartupFindEnergyOrSource(w, energy_capacity, time, r) ==
    LET i == FirstMatch(w.resources,
                 LAMBDA res : res.energy /\ res.amount >= BUILDER_ENERGY_PICKUP_THRESHOLD)
        j == FirstMatch(w.structures,
                 LAMBDA s : IsWithdrawable(s) /\ s.used >= BUILDER_ENERGY_WITHDRAW_THRESHOLD)
    IN  IF i > 0
        THEN NewEntryNoLedger(TakeFromResource(w.resources[i].id),
                 Min(w.resources[i].amount, energy_capacity), r)
        ELSE IF j > 0
        THEN NewEntryNoLedger(TakeFromStructure(w.structures[j].id),
                 Min(w.structures[j].used, energy_capacity), r)
        ELSE IF Len(w.sources) > 0
        THEN NewEntryNoLedger(HarvestEnergyUntilFull(w.sources[1].id), 1, r)
        ELSE IdleFallback(time, r)

\* a startup worker that consulted and registered claims as the hauler does
StartupFindTaskViaLedger(w, store, time, r) ==
    IF w.visible
    THEN IF TryIntoU32(store.used) > 0
         THEN FindDeliveryTarget(w, TryIntoU32(store.used), time, r)
         ELSE HaulerFindEnergy(w, TryIntoU32(store.free), time, r)
    ELSE NewUnreserved(IdleUntil(U32Max), r)

\* Startup::find_task
StartupFindTask(w, store, time, r) ==
    IF w.visible
    THEN IF TryIntoU32(store.used) > 0
         THEN FindStartupTask(w, TryIntoU32(store.used), time, r)
         ELSE StartupFindEnergyOrSource(w, TryIntoU32(store.free), time, r)
    ELSE NewUnreserved(IdleUntil(U32Max), r)

----------------------------------------------------------------------------
(* role/source_harvester.rs and role/tower.rs                              *)

\* SourceHarvester::find_task: source_position.look_for(look::SOURCES) is an
\* error for a room that is not visible, else the sources at the position
SourceHarvesterFindTask(w, source_position, r) ==
    LET i == FirstMatch(w.sources, LAMBDA source : source.pos = source_position)
    IN  IF w.visible /\ i > 0
        THEN NewEntryNoLedger(HarvestEnergyForever(w.sources[i].id), 1, r)
        ELSE NewUnreserved(MoveToPosition(source_position, 1), r)

\* Tower::find_task: unimplemented!()
TowerFindTask(w, time, r) == Panicked(r)

\* Worker::find_task, by role
FindTask(worker, w, time, r) ==
    CASE worker.role = "hauler" -> HaulerFindTask(w, worker.store, time, r)
      [] worker.role = "builder" ->
            BuilderFindTask(w, worker.repair_watermark, worker.store, time, r)
      [] worker.role = "upgrader" -> UpgraderFindTask(w, worker.store, time, r)
      [] worker.role = "startup" -> StartupFindTask(w, worker.store, time, r)
      [] worker.role = "source_harvester" ->
            SourceHarvesterFindTask(w, worker.source_position, r)
      [] worker.role = "tower" -> TowerFindTask(w, time, r)

----------------------------------------------------------------------------
(* World views and workers the model draws from                            *)

MaxStructures == 2
NumWorkers == 2
StartTime == 1

Structure(id, type, free, used, hits, hitsMax) ==
    [id |-> id, type |-> type, free |-> free, used |-> used,
     hits |-> hits, hitsMax |-> hitsMax]

StructurePool ==
    {Structure("sp1", "spawn", 30, 270, 5000, 5000),
     Structure("tw1", "tower", 0, 1000, 1000, 3000),
     Structure("st1", "storage", 100, 60, 10000, 10000),
     Structure("te1", "terminal", 80, 40, 3000, 3000),
     Structure("co1", "container", 0, 80, 100, 1000)}

\* the sequences without repetition of at most n elements of S: the orders in
\* which room.find() may enumerate them
RECURSIVE Arrangements(_, _)
Arrangements(S, n) ==
    IF n = 0 THEN {<<>>}
    ELSE {<<>>} \cup
         UNION {{<<x>> \o rest : rest \in Arrangements(S \ {x}, n - 1)} : x \in S}

Resource(id, amount, energy) == [id |-> id, amount |-> amount, energy |-> energy]

Site(id, progress, progressTotal) ==
    [id |-> id, progress |-> progress, progressTotal |-> progressTotal]

\* the terrain around a source: open towards the directions of `open`, the
\* room's edge towards those of `edge`, wall elsewhere
Terrain(open, edge) ==
    [d \in Directions |-> IF d \in open THEN "Plain"
                          ELSE IF d \in edge THEN "OutOfRoom" ELSE "Wall"]

Source(id, pos, terrain) == [id |-> id, pos |-> pos, terrain |-> terrain]

OpenSource == Source("so1", "p1", Terrain({"Top", "Left"}, {"Bottom"}))

WalledSource == Source("so1", "p2", Terrain({}, {"Right"}))

\* a source in a corridor: one open position
NarrowSource == Source("so1", "p1", Terrain({"Top"}, {}))

\* what the room holds besides its structures: dropped resources,
\* construction sites, active sources, the controller
Surroundings ==
    {[resources |-> <<>>, sites |-> <<>>, sources |-> <<>>, controller |-> <<>>],
     [resources |-> <<Resource("r1", 100, TRUE)>>, sites |-> <<Site("c1", 0, 100)>>,
      sources |-> <<OpenSource>>, controller |-> <<"ctl">>],
     [resources |-> <<Resource("r1", 30, TRUE)>>,
      sites |-> <<Site("c1", 97, 100), Site("c2", 40, 100)>>,
      sources |-> <<WalledSource>>, controller |-> <<>>],
     [resources |-> <<Resource("r1", 100, FALSE), Resource("r2", 60, TRUE)>>,
      sites |-> <<>>, sources |-> <<OpenSource>>, controller |-> <<"ctl">>],
     [resources |-> <<>>, sites |-> <<>>, sources |-> <<OpenSource>>,
      controller |-> <<"ctl">>],
     [resources |-> <<Resource("r1", 60, TRUE)>>, sites |-> <<>>, sources |-> <<>>,
      controller |-> <<>>],
     [resources |-> <<>>, sites |-> <<>>, sources |-> <<NarrowSource>>,
      controller |-> <<>>]}

World(visible, structures, around) ==
    [visible |-> visible, resources |-> around.resources, structures |-> structures,
     sites |-> around.sites, sources |-> around.sources,
     controller |-> around.controller]

\* a room that game::rooms().get(home_room) does not return
UnseenWorld ==
    World(FALSE, <<>>,
          [resources |-> <<>>, sites |-> <<>>, sources |-> <<>>, controller |-> <<>>])

Worlds ==
    {UnseenWorld} \cup
    {World(TRUE, ss, around) :
        ss \in Arrangements(StructurePool, MaxStructures), around \in Surroundings}

Store(used, free) == [used |-> used, free |-> free]

Stores == {Store(0, 50), Store(50, 0), Store(20, 30), Store(0, 0)}

RepairWatermarks == {300, 1000}

Worker(role, store, repair_watermark, source_position) ==
    [role |-> role, store |-> store, repair_watermark |-> repair_watermark,
     source_position |-> source_position]

\* the roles whose find_task takes the ledger and registers its claim in it
LedgerRoles == {"hauler", "builder", "upgrader"}

Workers ==
    {Worker("builder", st, wm, "p1") : st \in Stores, wm \in RepairWatermarks}
    \cup {Worker(role, st, 0, "p1") : role \in {"hauler", "upgrader", "startup"},
                                      st \in Stores}
    \cup {Worker(role, Store(0, 50), 0, "p1") : role \in {"source_harvester", "tower"}}

----------------------------------------------------------------------------
(* A proposal pass: workers in need of a task call find_task one after the *)
(* other against one world view and one ledger                             *)

\* history of a find_task call that did not directly follow a call of the same
\* worker
NoRepeat == [is |-> FALSE, ok |-> TRUE, entry |-> [task |-> WaitToSpawn, amount |-> 0]]

NoProposal ==
    [worker |-> Worker("none", Store(0, 0), 0, "p1"), ok |-> TRUE,
     entry |-> [task |-> WaitToSpawn, amount |-> 0], before |-> 0,
     repeat |-> NoRepeat, earlier |-> <<>>]

HistoryIdle ==
    /\ net = <<>>
    /\ lastOp = [op |-> "none", task |-> WaitToSpawn, amount |-> 0]
    /\ nOps = 0

PassIdle ==
    /\ world = UnseenWorld
    /\ game_time = StartTime
    /\ lastProposal = NoProposal
    /\ nProposed = 0
    /\ aborted = FALSE

NoResult ==
    [worker |-> 0, result |-> [kind |-> "None"],
     entry |-> [task |-> WaitToSpawn, amount |-> 0, uid |-> 0], queue |-> <<>>,
     stale |-> FALSE, rejected |-> FALSE]

\* the compute budget as the movement phase reads it: usage above the high
\* threshold, banked reserve below the low threshold; both clear before a read
NoCpu == [usage_high |-> FALSE, bucket_low |-> FALSE]

EngineIdle ==
    /\ workers = <<>>
    /\ phase = "off"
    /\ cursor = 0
    /\ goals = <<>>
    /\ cpu = NoCpu
    /\ issued = {}
    /\ released = <<>>
    /\ lastResult = NoResult

NoGame ==
    [creeps |-> <<>>, spawns |-> <<>>, structures |-> <<>>, sources_active |-> <<>>,
     objects |-> {}, energy_available |-> 0]

NoRun ==
    [name |-> "none", locked |-> FALSE, target |-> [kind |-> "None", id |-> NoId],
     resolved |-> FALSE, code |-> "Ok", commands |-> <<>>]

StarterIdle ==
    /\ creep_targets = <<>>
    /\ game = NoGame
    /\ pc = [phase |-> "off", i |-> 0]
    /\ commands = <<>>
    /\ lastRun = NoRun

\* a pass that starts on whatever the ledger held before, not on an empty one
InitPassLeftover ==
    /\ reserved_tasks \in {EmptyLedger,
                           AddReservationWithAmount(EmptyLedger,
                                                    TakeFromResource("r1"), 50)}
    /\ HistoryIdle
    /\ EngineIdle
    /\ StarterIdle
    /\ world \in Worlds
    /\ game_time = StartTime
    /\ lastProposal = NoProposal
    /\ nProposed = 0
    /\ aborted = FALSE

InitPass ==
    /\ reserved_tasks = EmptyLedger
    /\ HistoryIdle
    /\ EngineIdle
    /\ StarterIdle
    /\ world \in Worlds
    /\ game_time = StartTime
    /\ lastProposal = NoProposal
    /\ nProposed = 0
    /\ aborted = FALSE

\* find_task for one worker against the shared ledger; earlier is what the
\* history keeps of the calls made before it in the pass
ProposeRecording(worker, earlier) ==
    /\ ~aborted
    /\ nProposed < NumWorkers
    /\ LET res == FindTask(worker, world, game_time, reserved_tasks)
       IN  /\ reserved_tasks' = res.ledger
           /\ lastProposal' = [worker |-> worker, ok |-> res.ok, entry |-> res.entry,
                               before |-> Current(reserved_tasks, res.entry.task),
                               repeat |-> IF nProposed > 0 /\ lastProposal.worker = worker
                                          THEN [is |-> TRUE, ok |-> lastProposal.ok,
                                                entry |-> lastProposal.entry]
                                          ELSE NoRepeat,
                               earlier |-> earlier]
           /\ aborted' = ~res.ok
    /\ nProposed' = nProposed + 1
    /\ UNCHANGED <<world, game_time, historyVars, engineVars, starterVars>>

Propose(worker) == ProposeRecording(worker, <<>>)

NextPass == \E worker \in Workers : Propose(worker)

SpecPass == InitPass /\ [][NextPass]_vars

\* the same pass with the order of the workers proposed for kept in the history
ProposeInOrder(worker) ==
    ProposeRecording(worker, IF nProposed > 0
                             THEN Append(lastProposal.earlier, lastProposal.worker)
                             ELSE <<>>)

NextOrder == \E worker \in Workers : ProposeInOrder(worker)

SpecOrder == InitPass /\ [][NextOrder]_vars

----------------------------------------------------------------------------
(* Claims about a proposal pass                                            *)

ById(seq, id) == seq[CHOOSE i \in 1..Len(seq) : seq[i].id = id]

\* what the target of a task can take or give: the pile's amount, the energy a
\* structure holds (withdrawal) or has room for (delivery), the energy a repair
\* or a construction still needs, the open positions around a source
DeclaredCapacity(w, task, repair_watermark) ==
    CASE task.kind = "TakeFromResource" -> ById(w.resources, task.id).amount
      [] task.kind = "TakeFromStructure" -> ById(w.structures, task.id).used
      [] task.kind = "DeliverToStructure" -> TryIntoU32(ById(w.structures, task.id).free)
      [] task.kind = "Repair" -> RepairNeeded(ById(w.structures, task.id), repair_watermark)
      [] task.kind = "Build" -> BuildNeeded(ById(w.sites, task.id))
      [] task.kind = "HarvestEnergyUntilFull" -> HarvestPositions(ById(w.sources, task.id))

CapacityKinds == {"TakeFromResource", "TakeFromStructure", "DeliverToStructure",
                  "Repair", "Build", "HarvestEnergyUntilFull"}

\* the last find_task call registered a claim on a target with a capacity
AcceptedClaim ==
    /\ lastProposal.ok
    /\ lastProposal.worker.role \in LedgerRoles
    /\ lastProposal.entry.task.kind \in CapacityKinds

ClaimedNow == Current(reserved_tasks, lastProposal.entry.task)

CapacityNow ==
    DeclaredCapacity(world, lastProposal.entry.task, lastProposal.worker.repair_watermark)

\* the claims whose admission adds the new claim to what is already claimed
ExactlyAdmitted ==
    \/ lastProposal.entry.task.kind \in {"TakeFromResource", "TakeFromStructure"}
    \/ /\ lastProposal.entry.task.kind = "DeliverToStructure"
       /\ ~IsPriorityConsumer(ById(world.structures, lastProposal.entry.task.id))
    \/ /\ lastProposal.entry.task.kind = "HarvestEnergyUntilFull"
       /\ lastProposal.worker.role = "upgrader"

ProposalTotal == nProposed > 0 => (lastProposal.ok /\ ~aborted)

\* the room holds one dropped pile of energy and nothing else to take from
SinglePile ==
    /\ world.visible
    /\ Len(world.resources) = 1
    /\ world.resources[1].energy
    /\ world.resources[1].amount >= HAULER_ENERGY_PICKUP_THRESHOLD
    /\ world.structures = <<>>
    /\ world.sources = <<>>

ThePile == TakeFromResource(world.resources[1].id)

\* what was claimed on the pile when the last proposal was made
PileClaimedBefore ==
    IF lastProposal.entry.task = ThePile THEN lastProposal.before
    ELSE Current(reserved_tasks, ThePile)

\* C14: an empty hauler, builder or upgrader proposing against a single pile
\* of amount R claims min(free capacity, R - already claimed) while that is
\* positive, and gets the idle fallback exactly when the pile is fully
\* claimed.
ContestedPickupShares ==
    (/\ nProposed > 0
     /\ SinglePile
     /\ lastProposal.worker.role \in LedgerRoles
     /\ lastProposal.worker.store.used = 0
     /\ lastProposal.worker.store.free > 0)
    => IF PileClaimedBefore < world.resources[1].amount
       THEN /\ lastProposal.entry.task = ThePile
            /\ lastProposal.entry.amount =
                  Min(lastProposal.worker.store.free,
                      world.resources[1].amount - PileClaimedBefore)
       ELSE lastProposal.entry.task.kind = "IdleUntil"

BoundedBackoff ==
    (/\ nProposed > 0
     /\ lastProposal.ok
     /\ world.visible
     /\ lastProposal.worker.role \in LedgerRoles
     /\ lastProposal.entry.task.kind = "IdleUntil")
    => /\ lastProposal.entry.task = IdleUntil(game_time + NO_TASK_IDLE_TICKS)
       /\ lastProposal.entry.amount = 0
       /\ Current(reserved_tasks, lastProposal.entry.task) = 0

RECURSIVE PassOutcome(_, _, _, _)
\* what a proposal pass over the workers of order gives, as a function of the
\* world view, the tick and the ledger it starts on: the entries in order and
\* the final ledger; a panic ends the pass
PassOutcome(order, w, time, r) ==
    IF order = <<>> THEN [ledger |-> r, entries |-> <<>>]
    ELSE LET res == FindTask(Head(order), w, time, r)
             rest == IF res.ok THEN PassOutcome(Tail(order), w, time, res.ledger)
                     ELSE [ledger |-> res.ledger, entries |-> <<>>]
         IN  [ledger |-> rest.ledger, entries |-> <<res.entry>> \o rest.entries]

\* the workers proposed for so far in the pass, in order
ProposedSoFar == Append(lastProposal.earlier, lastProposal.worker)

ProposedWithCargo(role) ==
    /\ nProposed > 0
    /\ lastProposal.ok
    /\ world.visible
    /\ lastProposal.worker.role = role
    /\ lastProposal.worker.store.used > 0

\* the structure the last proposal delivers to
DeliveryTarget == ById(world.structures, lastProposal.entry.task.id)

\* C29: whatever the order of the structures in the world view, a builder
\* holding energy gets a Build only when no structure admits a Repair, and a
\* hauler holding energy gets the terminal or the storage only when no spawn,
\* extension or tower admits a delivery, the storage only when the terminal
\* does not admit one either.
FixedPriorityOrder ==
    /\ (ProposedWithCargo("builder") /\ lastProposal.entry.task.kind = "Build")
          => \A i \in DOMAIN world.structures :
                ~RepairAdmits(world.structures[i], lastProposal.worker.repair_watermark,
                              lastProposal.worker.store.used, reserved_tasks)
    /\ (/\ ProposedWithCargo("hauler")
        /\ lastProposal.entry.task.kind = "DeliverToStructure"
        /\ DeliveryTarget.type \in {"terminal", "storage"})
          => /\ \A i \in DOMAIN world.structures :
                   ~PriorityAdmits(world.structures[i], lastProposal.worker.store.used,
                                   reserved_tasks)
             /\ DeliveryTarget.type = "storage"
                   => \A i \in DOMAIN world.structures :
                         world.structures[i].type = "terminal"
                         => ~(/\ world.structures[i].used < TERMINAL_ENERGY_TARGET
                              /\ BulkAdmits(world.structures[i],
                                            lastProposal.worker.store.used,
                                            reserved_tasks))

\* C29 witness: the storage is enumerated before a spawn that is fully
\* claimed, and a hauler holding energy is sent to the storage
FixedPriorityWitness ==
    /\ ProposedWithCargo("hauler")
    /\ lastProposal.entry.task.kind = "DeliverToStructure"
    /\ DeliveryTarget.type = "storage"
    /\ Len(world.structures) = 2
    /\ world.structures[1].type = "storage"
    /\ world.structures[2].type = "spawn"

EnergyKinds == {"TakeFromResource", "TakeFromStructure", "DeliverToStructure",
                "Repair", "Build"}

\* the last find_task call returned an entry that reserves energy
EnergyEntry ==
    /\ nProposed > 0
    /\ lastProposal.ok
    /\ lastProposal.entry.task.kind \in EnergyKinds

\* the cargo held for a delivery, a repair or a build, the free capacity for a
\* pickup
RelevantCapacity ==
    IF lastProposal.entry.task.kind \in {"TakeFromResource", "TakeFromStructure"}
    THEN TryIntoU32(lastProposal.worker.store.free)
    ELSE TryIntoU32(lastProposal.worker.store.used)

\* the target's capacity or need less what the ledger held on it when the
\* proposal was made
RemainingNeed == CapacityNow - lastProposal.before

HarvestWorkerCap ==
    world.visible =>
        \A i \in DOMAIN world.sources :
            Current(reserved_tasks, HarvestEnergyUntilFull(world.sources[i].id))
                <= HarvestPositions(world.sources[i])

\* what the ledger held on the delivery to structure s when the last proposal
\* was made: the proposal changed the amount of its own task only
DeliveryClaimedBefore(s) ==
    IF lastProposal.entry.task = DeliverToStructure(s.id)
    THEN lastProposal.before
    ELSE Current(reserved_tasks, DeliverToStructure(s.id))

\* the spawns, extensions and towers of the world view that have room for
\* energy, by their position in the enumeration
OpenConsumers ==
    {i \in DOMAIN world.structures :
        /\ IsPriorityConsumer(world.structures[i])
        /\ TryIntoU32(world.structures[i].free) > 0}

\* C33: for a spawn, extension or tower with free capacity C > 0 a hauler's
\* delivery is admitted whenever the amount already claimed is below C, with
\* claim min(cargo, C); after any number of proposals of the pass the claimed
\* amount of the structure is at most 2 * C - 1, and once it is at least C no
\* further delivery to it is admitted.
BoundedOverClaim ==
    /\ world.visible
          => \A i \in OpenConsumers :
                Current(reserved_tasks, DeliverToStructure(world.structures[i].id))
                   <= 2 * TryIntoU32(world.structures[i].free) - 1
    /\ ProposedWithCargo("hauler")
          => /\ \A i \in OpenConsumers :
                   (/\ DeliveryClaimedBefore(world.structures[i])
                          < TryIntoU32(world.structures[i].free)
                    /\ \A j \in OpenConsumers :
                          j < i => DeliveryClaimedBefore(world.structures[j])
                                      >= TryIntoU32(world.structures[j].free))
                   => /\ lastProposal.entry.task
                            = DeliverToStructure(world.structures[i].id)
                      /\ lastProposal.entry.amount
                            = Min(lastProposal.worker.store.used,
                                  TryIntoU32(world.structures[i].free))
             /\ \A i \in OpenConsumers :
                   (/\ lastProposal.entry.task
                          = DeliverToStructure(world.structures[i].id)
                    /\ lastProposal.entry.amount > 0)
                   => lastProposal.before < TryIntoU32(world.structures[i].free)

\* C33 witness: a hauler is sent to a spawn that already had a claim on it, and
\* the claims on the spawn now exceed its free capacity
OverClaimWitness ==
    /\ ProposedWithCargo("hauler")
    /\ lastProposal.entry.task.kind = "DeliverToStructure"
    /\ DeliveryTarget.type = "spawn"
    /\ lastProposal.before > 0
    /\ ClaimedNow > TryIntoU32(DeliveryTarget.free)
    /\ ClaimedNow <= 2 * TryIntoU32(DeliveryTarget.free) - 1

----------------------------------------------------------------------------
(* task.rs: TaskResult, run_task and the handlers it dispatches to         *)

NoGoal == [pos |-> NoId, range |-> 0, profile |-> "none", avoid_creeps |-> FALSE]

Result(kind, goal, task) == [kind |-> kind, goal |-> goal, task |-> task]

Complete == Result("Complete", NoGoal, WaitToSpawn)
StillWorking == Result("StillWorking", NoGoal, WaitToSpawn)
MoveMeTo(goal) == Result("MoveMeTo", goal, WaitToSpawn)
AddTaskToFront(task) == Result("AddTaskToFront", NoGoal, task)
CompleteAddTaskToFront(task) == Result("CompleteAddTaskToFront", NoGoal, task)
CompleteAddTaskToBack(task) == Result("CompleteAddTaskToBack", NoGoal, task)
DestroyWorker == Result("DestroyWorker", NoGoal, WaitToSpawn)

\* the tasks that carry an object id to resolve
ReferenceKinds == {"HarvestEnergyUntilFull", "HarvestEnergyForever", "Upgrade", "Build",
                   "Repair", "TakeFromResource", "TakeFromStructure",
                   "DeliverToStructure"}

HasId(seq, id) == \E i \in 1..Len(seq) : seq[i].id = id

\* id.resolve(): the object is in this tick's world view
TargetResolves(w, task) ==
    CASE task.kind \in {"HarvestEnergyUntilFull", "HarvestEnergyForever"} ->
            HasId(w.sources, task.id)
      [] task.kind = "Upgrade" -> \E i \in 1..Len(w.controller) : w.controller[i] = task.id
      [] task.kind = "Build" -> HasId(w.sites, task.id)
      [] task.kind \in {"Repair", "TakeFromStructure", "DeliverToStructure"} ->
            HasId(w.structures, task.id)
      [] task.kind = "TakeFromResource" -> HasId(w.resources, task.id)

\* the range an action needs: 3 for build, repair and upgrade, 1 otherwise
InteractionRange(task) ==
    IF task.kind \in {"Build", "Repair", "Upgrade"} THEN 3 ELSE 1

\* Worker::get_movement_profile
MovementProfile(worker) ==
    IF worker.role = "startup" THEN "PlainsOneToOne" ELSE "Default"

\* the tasks a handler pushes with a push result
FollowUpTask == MoveToPosition("p1", 1)

DetourTask == TakeFromResource("r1")

\* a handler whose forever variant completes on a soft condition as the
\* other tasks do
HandlerForeverCompletes(worker, task, w, dist, response) ==
    IF ~TargetResolves(w, task) THEN Complete
    ELSE IF dist > InteractionRange(task)
    THEN MoveMeTo([pos |-> task.id, range |-> InteractionRange(task),
                   profile |-> MovementProfile(worker), avoid_creeps |-> FALSE])
    ELSE CASE response = "Ok" -> StillWorking
           [] response = "Soft" -> Complete
           [] response = "Rejected" -> Complete
           [] response = "Fatal" -> DestroyWorker
           [] response = "Interrupt" -> AddTaskToFront(FollowUpTask)
           [] response = "Detour" -> AddTaskToFront(DetourTask)
           [] response = "Replace" -> CompleteAddTaskToFront(FollowUpTask)
           [] response = "FollowUp" -> CompleteAddTaskToBack(FollowUpTask)

\* the handlers harvest::*, build::build, repair::repair, upgrade::upgrade and
\* logistics::*: resolve the target, ask to be moved when out of range, else
\* attempt the action and turn the world's response into a TaskResult
Handler(worker, task, w, dist, response) ==
    IF ~TargetResolves(w, task) THEN Complete
    ELSE IF dist > InteractionRange(task)
    THEN MoveMeTo([pos |-> task.id, range |-> InteractionRange(task),
                   profile |-> MovementProfile(worker), avoid_creeps |-> FALSE])
    ELSE CASE response = "Ok" -> StillWorking
           [] response = "Soft" ->
                IF task.kind = "HarvestEnergyForever" THEN StillWorking ELSE Complete
           [] response = "Rejected" -> Complete
           [] response = "Fatal" -> DestroyWorker
           [] response = "Interrupt" -> AddTaskToFront(FollowUpTask)
           [] response = "Detour" -> AddTaskToFront(DetourTask)
           [] response = "Replace" -> CompleteAddTaskToFront(FollowUpTask)
           [] response = "FollowUp" -> CompleteAddTaskToBack(FollowUpTask)

\* whether the handler sends an action to the world: only with the target
\* resolved and in range
HandlerActs(task, w, dist) ==
    TargetResolves(w, task) /\ dist <= InteractionRange(task)

\* a run_task whose idle ends one tick late: game::time() > tick
RunTaskIdleLate(worker, task, w, time, dist, response) ==
    CASE task.kind = "IdleUntil" ->
            IF time > task.n THEN Complete ELSE StillWorking
      [] task.kind = "MoveToPosition" ->
            IF dist <= task.n THEN Complete
            ELSE MoveMeTo([pos |-> task.id, range |-> task.n,
                           profile |-> MovementProfile(worker), avoid_creeps |-> FALSE])
      [] task.kind \in ReferenceKinds -> Handler(worker, task, w, dist, response)

\* a run_task that keeps a move task working while its worker is one step
\* outside the range
RunTaskMoveLenient(worker, task, w, time, dist, response) ==
    CASE task.kind = "IdleUntil" ->
            IF time >= task.n THEN Complete ELSE StillWorking
      [] task.kind = "MoveToPosition" ->
            IF dist <= task.n THEN Complete
            ELSE IF dist = task.n + 1 THEN StillWorking
            ELSE MoveMeTo([pos |-> task.id, range |-> task.n,
                           profile |-> MovementProfile(worker), avoid_creeps |-> FALSE])
      [] task.kind \in ReferenceKinds -> Handler(worker, task, w, dist, response)

\* Task::run_task
RunTask(worker, task, w, time, dist, response) ==
    CASE task.kind = "IdleUntil" ->
            IF time >= task.n THEN Complete ELSE StillWorking
      [] task.kind = "MoveToPosition" ->
            IF dist <= task.n THEN Complete
            ELSE MoveMeTo([pos |-> task.id, range |-> task.n,
                           profile |-> MovementProfile(worker), avoid_creeps |-> FALSE])
      [] task.kind \in ReferenceKinds -> Handler(worker, task, w, dist, response)

\* Task::add_reservations_for_loaded_queue: the body is a TODO, nothing is
\* registered and expected_store is returned as None
AddReservationsForLoadedQueue(queue, r) == r

----------------------------------------------------------------------------
(* The worker queue and the handling of a TaskResult                       *)

MaxQueue == 2

QueueEntry(entry, uid) == [task |-> entry.task, amount |-> entry.amount, uid |-> uid]

RECURSIVE ReleaseAll(_, _)
\* the ledger after the release of every entry of a queue
ReleaseAll(queue, r) ==
    IF queue = <<>> THEN r
    ELSE ReleaseAll(Tail(queue), RemoveReservation(r, Head(queue).task, Head(queue).amount))

\* a handling that releases the front entry only, whatever is removed
ReleasesFrontOnly(queue, result) ==
    IF result.kind \in {"Complete", "CompleteAddTaskToFront", "CompleteAddTaskToBack",
                        "DestroyWorker"}
    THEN <<Head(queue)>>
    ELSE <<>>

\* the entries whose reservation the handling of a result releases
Releases(queue, result) ==
    CASE result.kind \in {"Complete", "CompleteAddTaskToFront", "CompleteAddTaskToBack"} ->
            <<Head(queue)>>
      [] result.kind = "DestroyWorker" -> queue
      [] OTHER -> <<>>

\* a handling that takes a task whose worker asked to be moved off the queue
QueueAfterPopOnMove(queue, result, uid) ==
    LET pushed == QueueEntry([task |-> result.task, amount |-> 0], uid)
    IN  CASE result.kind \in {"Complete", "MoveMeTo"} -> Tail(queue)
          [] result.kind = "AddTaskToFront" -> <<pushed>> \o queue
          [] result.kind = "CompleteAddTaskToFront" -> <<pushed>> \o Tail(queue)
          [] result.kind = "CompleteAddTaskToBack" -> Tail(queue) \o <<pushed>>
          [] OTHER -> queue

\* a handling that puts the follow-up of CompleteAddTaskToBack at the front
QueueAfterBackAtFront(queue, result, uid) ==
    LET pushed == QueueEntry([task |-> result.task, amount |-> 0], uid)
    IN  CASE result.kind = "Complete" -> Tail(queue)
          [] result.kind = "AddTaskToFront" -> <<pushed>> \o queue
          [] result.kind = "CompleteAddTaskToFront" -> <<pushed>> \o Tail(queue)
          [] result.kind = "CompleteAddTaskToBack" -> <<pushed>> \o Tail(queue)
          [] OTHER -> queue

\* the queue a result leaves; uid is the one a pushed entry gets
QueueAfter(queue, result, uid) ==
    LET pushed == QueueEntry([task |-> result.task, amount |-> 0], uid)
    IN  CASE result.kind = "Complete" -> Tail(queue)
          [] result.kind = "AddTaskToFront" -> <<pushed>> \o queue
          [] result.kind = "CompleteAddTaskToFront" -> <<pushed>> \o Tail(queue)
          [] result.kind = "CompleteAddTaskToBack" -> Tail(queue) \o <<pushed>>
          [] OTHER -> queue

\* a Complete that forgets the release
LedgerAfterKeepClaim(queue, result, r) == r

\* the ledger a result leaves: every released entry's claim is taken off
LedgerAfter(queue, result, r) == ReleaseAll(Releases(queue, result), r)

\* a handling that keeps a destroyed worker registered, its queue emptied
RegistryAfterKeepWorker(ws, id, result, uid) ==
    IF result.kind = "DestroyWorker"
    THEN [ws EXCEPT ![id].queue = <<>>]
    ELSE [ws EXCEPT ![id].queue = QueueAfter(@, result, uid)]

\* the registry a result of worker id leaves: DestroyWorker takes the worker
\* out, every other result changes its queue only
RegistryAfter(ws, id, result, uid) ==
    IF result.kind = "DestroyWorker"
    THEN [other \in (DOMAIN ws) \ {id} |-> ws[other]]
    ELSE [ws EXCEPT ![id].queue = QueueAfter(@, result, uid)]

Pushes(result) ==
    result.kind \in {"AddTaskToFront", "CompleteAddTaskToFront", "CompleteAddTaskToBack"}

----------------------------------------------------------------------------
(* The tick: ledger reset and replay, proposal pass, execution pass,       *)
(* movement phase                                                          *)

NumAgents == 2
MaxTime == 2

TickStores == {Store(0, 50), Store(50, 0)}

TickWorlds ==
    {World(TRUE,
           <<Structure("co1", "container", 0, 80, 100, 1000),
             Structure("sp1", "spawn", 30, 270, 5000, 5000)>>,
           [resources |-> <<Resource("r1", 100, TRUE)>>, sites |-> <<>>,
            sources |-> <<OpenSource>>, controller |-> <<"ctl">>]),
     World(TRUE, <<>>,
           [resources |-> <<>>, sites |-> <<>>, sources |-> <<>>,
            controller |-> <<"ctl">>]),
     UnseenWorld}

\* get_range_to() of the worker to its target or position
Distances == {1, 4}

\* what the world answers to an attempted action, as the handler reads it
Responses ==
    {"Ok", "Soft", "Rejected", "Fatal", "Interrupt", "Detour", "Replace", "FollowUp"}

AgentIds == 1..NumAgents

Agent(role, store, queue) ==
    [role |-> role, store |-> store, repair_watermark |-> 1000,
     source_position |-> "p1", queue |-> queue]

InitTick ==
    /\ StarterIdle
    /\ reserved_tasks = EmptyLedger
    /\ HistoryIdle
    /\ world \in TickWorlds
    /\ game_time = StartTime
    /\ lastProposal = NoProposal
    /\ nProposed = 0
    /\ aborted = FALSE
    /\ workers \in [AgentIds -> {Agent(role, st, <<>>) : role \in LedgerRoles,
                                                        st \in TickStores}]
    /\ phase = "propose"
    /\ cursor = 1
    /\ goals = <<>>
    /\ cpu = NoCpu
    /\ issued = {}
    /\ released = <<>>
    /\ lastResult = NoResult

RECURSIVE ReplayQueues(_, _, _)
\* add_reservations_for_loaded_queue for the queue of every worker from id on
ReplayQueues(id, ws, r) ==
    IF id > NumAgents THEN r
    ELSE ReplayQueues(id + 1, ws,
            IF id \in DOMAIN ws THEN AddReservationsForLoadedQueue(ws[id].queue, r)
            ELSE r)

\* start of a tick: a fresh world view, the ledger emptied and replayed from
\* the queues that were carried over
BeginTick ==
    /\ phase = "begin"
    /\ world' \in TickWorlds
    /\ \E stores \in [DOMAIN workers -> TickStores] :
          workers' = [id \in DOMAIN workers |-> [workers[id] EXCEPT !.store = stores[id]]]
    /\ reserved_tasks' = ReplayQueues(1, workers, EmptyLedger)
    /\ phase' = "propose"
    /\ cursor' = 1
    /\ nProposed' = 0
    /\ issued' = {}
    /\ UNCHANGED <<game_time, lastProposal, aborted, goals, cpu, released, lastResult,
                   historyVars, starterVars>>

\* the cursor moves to the next worker, or the pass ends
Advance(next) ==
    IF cursor < NumAgents
    THEN cursor' = cursor + 1 /\ phase' = phase
    ELSE cursor' = 1 /\ phase' = next

\* proposal pass, one worker: find_task for a worker whose queue is empty
ProposeStep ==
    /\ phase = "propose"
    /\ ~aborted
    /\ IF cursor \in DOMAIN workers /\ workers[cursor].queue = <<>>
       THEN LET w == workers[cursor]
                res == FindTask(w, world, game_time, reserved_tasks)
            IN  /\ reserved_tasks' = res.ledger
                /\ aborted' = ~res.ok
                /\ workers' = IF res.ok
                              THEN [workers EXCEPT ![cursor].queue =
                                        <<QueueEntry(res.entry, Len(released) + 1)>>]
                              ELSE workers
                /\ released' = IF res.ok THEN Append(released, 0) ELSE released
                /\ lastProposal' =
                      [worker |-> Worker(w.role, w.store, w.repair_watermark,
                                         w.source_position),
                       ok |-> res.ok, entry |-> res.entry,
                       before |-> Current(reserved_tasks, res.entry.task),
                       repeat |-> NoRepeat, earlier |-> <<>>]
                /\ nProposed' = nProposed + 1
       ELSE UNCHANGED <<reserved_tasks, aborted, workers, released, lastProposal,
                        nProposed>>
    /\ Advance("execute")
    /\ UNCHANGED <<world, game_time, goals, cpu, issued, lastResult, historyVars,
                   starterVars>>

\* execution pass, one worker: run the front entry and handle its TaskResult
ExecuteStep(dist, response) ==
    /\ phase = "execute"
    /\ ~aborted
    /\ IF cursor \in DOMAIN workers /\ workers[cursor].queue # <<>>
       THEN LET w == workers[cursor]
                front == Head(w.queue)
                result == RunTask(w, front.task, world, game_time, dist, response)
                uid == Len(released) + 1
                gone == Releases(w.queue, result)
            IN  /\ result.kind = "AddTaskToFront" => Len(w.queue) < MaxQueue
                /\ workers' = RegistryAfter(workers, cursor, result, uid)
                /\ reserved_tasks' = LedgerAfter(w.queue, result, reserved_tasks)
                /\ released' =
                      LET counted ==
                              [u \in DOMAIN released |->
                                 released[u]
                                 + Cardinality({i \in 1..Len(gone) : gone[i].uid = u})]
                      IN  IF Pushes(result) THEN Append(counted, 0) ELSE counted
                /\ goals' = IF result.kind = "MoveMeTo"
                            THEN Append(goals, [worker |-> cursor, goal |-> result.goal])
                            ELSE goals
                /\ issued' = IF /\ front.task.kind \in ReferenceKinds
                                /\ HandlerActs(front.task, world, dist)
                             THEN issued \cup {[worker |-> cursor, command |-> "action"]}
                             ELSE issued
                /\ lastResult' =
                      [worker |-> cursor, result |-> result, entry |-> front,
                       queue |-> w.queue,
                       stale |-> /\ front.task.kind \in ReferenceKinds
                                 /\ ~TargetResolves(world, front.task),
                       rejected |-> /\ front.task.kind \in ReferenceKinds
                                    /\ HandlerActs(front.task, world, dist)
                                    /\ response = "Rejected"]
       ELSE UNCHANGED <<workers, reserved_tasks, released, goals, issued, lastResult>>
    /\ Advance("move")
    /\ UNCHANGED <<world, game_time, lastProposal, nProposed, aborted, cpu, historyVars,
                   starterVars>>

\* a gate that looks at the usage signal only
MovementGatedByUsage(signals) == signals.usage_high

\* the movement gate: either signal exhausted skips the phase's work
MovementGated(signals) == signals.usage_high \/ signals.bucket_low

\* movement phase: with the gate open every buffered goal gets its move
\* command, with the gate closed none does; the buffer does not outlive the
\* tick
MovePhase(usage_high, bucket_low) ==
    /\ phase = "move"
    /\ cpu' = [usage_high |-> usage_high, bucket_low |-> bucket_low]
    /\ issued' = IF MovementGated(cpu') THEN issued
                 ELSE issued \cup {[worker |-> goals[i].worker, command |-> "move"] :
                                      i \in 1..Len(goals)}
    /\ goals' = <<>>
    /\ phase' = "end"
    /\ UNCHANGED <<reserved_tasks, world, game_time, lastProposal, nProposed, aborted,
                   workers, cursor, released, lastResult, historyVars, starterVars>>

\* end of the tick: the registry is kept for the next tick, the tick advances
EndTick ==
    /\ phase = "end"
    /\ game_time < MaxTime
    /\ game_time' = game_time + 1
    /\ phase' = "begin"
    /\ cpu' = NoCpu
    /\ UNCHANGED <<reserved_tasks, world, lastProposal, nProposed, aborted, workers,
                   cursor, goals, issued, released, lastResult, historyVars,
                   starterVars>>

Execute == \E dist \in Distances, response \in Responses : ExecuteStep(dist, response)

Move == \E usage_high \in BOOLEAN, bucket_low \in BOOLEAN : MovePhase(usage_high, bucket_low)

NextTick == BeginTick \/ ProposeStep \/ Execute \/ Move \/ EndTick

SpecTick == InitTick /\ [][NextTick]_vars

\* the engine with a stationary harvester registered as its first worker
InitHarvester ==
    /\ StarterIdle
    /\ reserved_tasks = EmptyLedger
    /\ HistoryIdle
    /\ world \in TickWorlds
    /\ game_time = StartTime
    /\ lastProposal = NoProposal
    /\ nProposed = 0
    /\ aborted = FALSE
    /\ workers \in {ws \in [AgentIds -> {Agent(role, st, <<>>) :
                                           role \in LedgerRoles \cup {"source_harvester"},
                                           st \in TickStores}] :
                        ws[1].role = "source_harvester"}
    /\ phase = "propose"
    /\ cursor = 1
    /\ goals = <<>>
    /\ cpu = NoCpu
    /\ issued = {}
    /\ released = <<>>
    /\ lastResult = NoResult

SpecHarvester == InitHarvester /\ [][NextTick]_vars

----------------------------------------------------------------------------
(* Task::run_task on the tasks it deals with directly, tick after tick:    *)
(* one worker holding an IdleUntil or a MoveToPosition entry               *)

\* the ticks observed: from the start up to RunHorizon, and the last ticks
\* before u32::MAX
RunHorizon == 5

RunStarts == {StartTime, StartTime + 1, U32Max - 2}

\* worker.pos().get_range_to(position)
Ranges == {0, 1, 2, 4}

DirectTasks(time) ==
    {IdleUntil(t) : t \in {time - 1, time, time + 1, time + 2, U32Max}}
    \cup {MoveToPosition("p2", r) : r \in {0, 1, 3}}

\* a registered worker with one unreserved entry, at range from the position
RunAgent(role, task, range) ==
    [role |-> role, store |-> Store(0, 50), repair_watermark |-> 1000,
     source_position |-> "p1",
     queue |-> <<QueueEntry([task |-> task, amount |-> 0], 1)>>, range |-> range]

InitRun ==
    /\ StarterIdle
    /\ HistoryIdle
    /\ reserved_tasks = EmptyLedger
    /\ world = UnseenWorld
    /\ game_time \in RunStarts
    /\ lastProposal = NoProposal
    /\ nProposed = 0
    /\ aborted = FALSE
    /\ \E role \in {"hauler", "startup"}, task \in DirectTasks(game_time),
          range \in Ranges :
          workers = <<RunAgent(role, task, range)>>
    /\ phase = "off"
    /\ cursor = 0
    /\ goals = <<>>
    /\ cpu = NoCpu
    /\ issued = {}
    /\ released = <<0>>
    /\ lastResult = NoResult

\* one tick of the worker: run_task on the front entry, the result handled,
\* the worker moved to range next_range of the position, the tick advanced
RunStep(next_range) ==
    /\ 1 \in DOMAIN workers
    /\ workers[1].queue # <<>>
    /\ \/ game_time < RunHorizon
       \/ game_time >= U32Max - 2 /\ game_time < U32Max
    /\ LET w == workers[1]
           front == Head(w.queue)
           result == RunTask(w, front.task, world, game_time, w.range, "Ok")
           gone == Releases(w.queue, result)
       IN  /\ workers' = [RegistryAfter(workers, 1, result, Len(released) + 1)
                            EXCEPT ![1].range = next_range]
           /\ reserved_tasks' = LedgerAfter(w.queue, result, reserved_tasks)
           /\ released' = [u \in DOMAIN released |->
                              released[u]
                              + Cardinality({i \in 1..Len(gone) : gone[i].uid = u})]
           /\ lastResult' = [worker |-> 1, result |-> result, entry |-> front,
                             queue |-> w.queue, stale |-> FALSE, rejected |-> FALSE]
    /\ game_time' = game_time + 1
    /\ UNCHANGED <<world, lastProposal, nProposed, aborted, phase, cursor, goals, cpu,
                   issued, historyVars, starterVars>>

NextRun == \E next_range \in Ranges : RunStep(next_range)

SpecRun == InitRun /\ [][NextRun]_vars

----------------------------------------------------------------------------
(* The starter loop of src/lib.rs: game_loop runs every creep against one   *)
(* target lock per creep name, then every spawn                            *)

CreepTargetUpgrade(controller_id) == [kind |-> "Upgrade", id |-> controller_id]

CreepTargetHarvest(source_id) == [kind |-> "Harvest", id |-> source_id]

\* a creep as game::creeps() shows it: room is creep.room().is_some(), near is
\* creep.pos().is_near_to(source.pos())
Creep(name, spawning, store, room, near) ==
    [name |-> name, spawning |-> spawning, store |-> store, room |-> room,
     near |-> near]

Command(name, call, target) == [by |-> name, call |-> call, target |-> target]

ReturnCodes == {"Ok", "NotInRange", "NotEnough"}

\* ObjectId::resolve()
Resolve(g, id) == id \in g.objects

\* a run_creep that keeps the lock of a target that is gone and walks
\* towards it
RunOccupiedKeepStale(creep, creep_target, g, r) ==
    IF creep_target.kind = "Upgrade" /\ creep.store.used > 0
    THEN IF Resolve(g, creep_target.id)
         THEN [remove |-> r \notin {"NotInRange", "Ok"},
               commands |-> <<Command(creep.name, "upgrade_controller", creep_target.id)>>
                            \o (IF r = "NotInRange"
                                THEN <<Command(creep.name, "move_to", creep_target.id)>>
                                ELSE <<>>)]
         ELSE [remove |-> FALSE,
               commands |-> <<Command(creep.name, "move_to", creep_target.id)>>]
    ELSE IF creep_target.kind = "Harvest" /\ creep.store.free > 0
    THEN IF Resolve(g, creep_target.id)
         THEN IF creep.near
              THEN [remove |-> r # "Ok",
                    commands |-> <<Command(creep.name, "harvest", creep_target.id)>>]
              ELSE [remove |-> FALSE,
                    commands |-> <<Command(creep.name, "move_to", creep_target.id)>>]
         ELSE [remove |-> FALSE,
               commands |-> <<Command(creep.name, "move_to", creep_target.id)>>]
    ELSE [remove |-> TRUE, commands |-> <<>>]

\* run_creep, Entry::Occupied, keeping the lock whatever the action returned
RunOccupiedKeepRejected(creep, creep_target, g, r) ==
    IF creep_target.kind = "Upgrade" /\ creep.store.used > 0
    THEN IF Resolve(g, creep_target.id)
         THEN [remove |-> FALSE,
               commands |-> <<Command(creep.name, "upgrade_controller", creep_target.id)>>
                            \o (IF r = "NotInRange"
                                THEN <<Command(creep.name, "move_to", creep_target.id)>>
                                ELSE <<>>)]
         ELSE [remove |-> TRUE, commands |-> <<>>]
    ELSE IF creep_target.kind = "Harvest" /\ creep.store.free > 0
    THEN IF Resolve(g, creep_target.id)
         THEN IF creep.near
              THEN [remove |-> FALSE,
                    commands |-> <<Command(creep.name, "harvest", creep_target.id)>>]
              ELSE [remove |-> FALSE,
                    commands |-> <<Command(creep.name, "move_to", creep_target.id)>>]
         ELSE [remove |-> TRUE, commands |-> <<>>]
    ELSE [remove |-> TRUE, commands |-> <<>>]

\* run_creep, Entry::Occupied: act on the locked target with return code r,
\* or drop the lock
RunOccupied(creep, creep_target, g, r) ==
    IF creep_target.kind = "Upgrade" /\ creep.store.used > 0
    THEN IF Resolve(g, creep_target.id)
         THEN [remove |-> r \notin {"NotInRange", "Ok"},
               commands |-> <<Command(creep.name, "upgrade_controller", creep_target.id)>>
                            \o (IF r = "NotInRange"
                                THEN <<Command(creep.name, "move_to", creep_target.id)>>
                                ELSE <<>>)]
         ELSE [remove |-> TRUE, commands |-> <<>>]
    ELSE IF creep_target.kind = "Harvest" /\ creep.store.free > 0
    THEN IF Resolve(g, creep_target.id)
         THEN IF creep.near
              THEN [remove |-> r # "Ok",
                    commands |-> <<Command(creep.name, "harvest", creep_target.id)>>]
              ELSE [remove |-> FALSE,
                    commands |-> <<Command(creep.name, "move_to", creep_target.id)>>]
         ELSE [remove |-> TRUE, commands |-> <<>>]
    ELSE [remove |-> TRUE, commands |-> <<>>]

\* run_creep, Entry::Vacant: the lock to insert, if any
RunVacant(creep, g) ==
    IF creep.store.used > 0
    THEN LET controller == FirstMatch(g.structures,
                                      LAMBDA st : st.type = "controller")
         IN  IF controller = 0 THEN <<>>
             ELSE <<CreepTargetUpgrade(g.structures[controller].id)>>
    ELSE IF g.sources_active # <<>>
    THEN <<CreepTargetHarvest(g.sources_active[1])>>
    ELSE <<>>

\* a run_creep that acts on the lock it has just inserted
RunCreepActOnInsert(creep, targets, g, r) ==
    IF creep.spawning
    THEN [ok |-> TRUE, creep_targets |-> targets, commands |-> <<>>]
    ELSE IF creep.name \in DOMAIN targets
    THEN LET done == RunOccupied(creep, targets[creep.name], g, r)
         IN  [ok |-> TRUE,
              creep_targets |-> IF done.remove
                                THEN [n \in (DOMAIN targets) \ {creep.name} |-> targets[n]]
                                ELSE targets,
              commands |-> done.commands]
    ELSE IF ~creep.room
    THEN [ok |-> FALSE, creep_targets |-> targets, commands |-> <<>>]
    ELSE LET found == RunVacant(creep, g)
         IN  IF found = <<>>
             THEN [ok |-> TRUE, creep_targets |-> targets, commands |-> <<>>]
             ELSE LET done == RunOccupied(creep, found[1], g, r)
                  IN  [ok |-> TRUE,
                       creep_targets |-> IF done.remove THEN targets
                                         ELSE targets @@ (creep.name :> found[1]),
                       commands |-> done.commands]

\* run_creep without the early return for a creep that is still spawning
RunCreepWhileSpawning(creep, targets, g, r) ==
    IF creep.name \in DOMAIN targets
    THEN LET done == RunOccupied(creep, targets[creep.name], g, r)
         IN  [ok |-> TRUE,
              creep_targets |-> IF done.remove
                                THEN [n \in (DOMAIN targets) \ {creep.name} |-> targets[n]]
                                ELSE targets,
              commands |-> done.commands]
    ELSE IF ~creep.room
    THEN [ok |-> FALSE, creep_targets |-> targets, commands |-> <<>>]
    ELSE LET found == RunVacant(creep, g)
         IN  [ok |-> TRUE,
              creep_targets |-> IF found = <<>> THEN targets
                                ELSE targets @@ (creep.name :> found[1]),
              commands |-> <<>>]

\* run_creep: the locks and the commands after the call; ok is FALSE where
\* creep.room().expect() panics
RunCreep(creep, targets, g, r) ==
    IF creep.spawning
    THEN [ok |-> TRUE, creep_targets |-> targets, commands |-> <<>>]
    ELSE IF creep.name \in DOMAIN targets
    THEN LET done == RunOccupied(creep, targets[creep.name], g, r)
         IN  [ok |-> TRUE,
              creep_targets |-> IF done.remove
                                THEN [n \in (DOMAIN targets) \ {creep.name} |-> targets[n]]
                                ELSE targets,
              commands |-> done.commands]
    ELSE IF ~creep.room
    THEN [ok |-> FALSE, creep_targets |-> targets, commands |-> <<>>]
    ELSE LET found == RunVacant(creep, g)
         IN  [ok |-> TRUE,
              creep_targets |-> IF found = <<>> THEN targets
                                ELSE targets @@ (creep.name :> found[1]),
              commands |-> <<>>]

\* Part::cost()
PartCost(part) == IF part = "Work" THEN 100 ELSE 50

RECURSIVE BodyCost(_)
\* body.iter().map(|p| p.cost()).sum()
BodyCost(body) == IF body = <<>> THEN 0 ELSE PartCost(Head(body)) + BodyCost(Tail(body))

StarterBody == <<"Move", "Move", "Carry", "Work">>

NumCreeps == 2

\* the states game::creeps() may show a creep in
CreepShapes(name) ==
    {Creep(name, FALSE, Store(0, 50), TRUE, TRUE),
     Creep(name, FALSE, Store(50, 0), TRUE, FALSE),
     Creep(name, FALSE, Store(20, 30), TRUE, TRUE),
     Creep(name, TRUE, Store(0, 50), TRUE, FALSE),
     Creep(name, FALSE, Store(0, 50), FALSE, FALSE)}

RECURSIVE CreepLists(_)
\* game::creeps().values() over the names from name on: every name is absent
\* or present in one of its shapes
CreepLists(name) ==
    IF name > NumCreeps THEN {<<>>}
    ELSE LET rest == CreepLists(name + 1)
         IN  rest \cup {<<c>> \o r : c \in CreepShapes(name), r \in rest}

Spawn(name, room) == [name |-> name, room |-> room]

RoomObject(id, type) == [id |-> id, type |-> type]

\* what the tick shows besides the creeps
RoomViews ==
    {[spawns |-> <<Spawn("Spawn1", TRUE)>>,
      structures |-> <<RoomObject("sp1", "spawn"), RoomObject("ctl", "controller")>>,
      sources_active |-> <<"so1">>, objects |-> {"sp1", "ctl", "so1"},
      energy_available |-> 300],
     [spawns |-> <<Spawn("Spawn1", TRUE)>>,
      structures |-> <<RoomObject("sp1", "spawn")>>,
      sources_active |-> <<>>, objects |-> {"sp1"}, energy_available |-> 200],
     [spawns |-> <<Spawn("Spawn1", FALSE)>>,
      structures |-> <<RoomObject("ctl", "controller"), RoomObject("sp1", "spawn")>>,
      sources_active |-> <<>>, objects |-> {"sp1", "ctl", "so1"},
      energy_available |-> 300],
     [spawns |-> <<>>,
      structures |-> <<RoomObject("ctl", "controller")>>,
      sources_active |-> <<"so2", "so1">>, objects |-> {"ctl", "so1", "so2"},
      energy_available |-> 0]}

Game(creeps, view) ==
    [creeps |-> creeps, spawns |-> view.spawns, structures |-> view.structures,
     sources_active |-> view.sources_active, objects |-> view.objects,
     energy_available |-> view.energy_available]

Games == {Game(creeps, view) : creeps \in CreepLists(1), view \in RoomViews}

\* where game_loop stands when it starts on g
StartOf(g) ==
    IF g.creeps # <<>> THEN [phase |-> "creeps", i |-> 1]
    ELSE [phase |-> "spawns", i |-> 1]

InitStarter ==
    /\ reserved_tasks = EmptyLedger
    /\ HistoryIdle
    /\ EngineIdle
    /\ world = UnseenWorld
    /\ lastProposal = NoProposal
    /\ nProposed = 0
    /\ game_time = StartTime
    /\ aborted = FALSE
    /\ creep_targets = <<>>
    /\ game \in Games
    /\ pc = StartOf(game)
    /\ commands = <<>>
    /\ lastRun = NoRun

\* game_loop, first loop, one creep: run_creep with the world answering r
RunCreepStep(r) ==
    /\ pc.phase = "creeps"
    /\ ~aborted
    /\ LET creep == game.creeps[pc.i]
           locked == ~creep.spawning /\ creep.name \in DOMAIN creep_targets
           res == RunCreep(creep, creep_targets, game, r)
       IN  /\ creep_targets' = res.creep_targets
           /\ commands' = commands \o res.commands
           /\ aborted' = ~res.ok
           /\ lastRun' =
                 [name |-> creep.name, locked |-> locked,
                  target |-> IF locked THEN creep_targets[creep.name] ELSE NoRun.target,
                  resolved |-> locked /\ Resolve(game, creep_targets[creep.name].id),
                  code |-> r, commands |-> res.commands]
    /\ pc' = IF pc.i < Len(game.creeps) THEN [pc EXCEPT !.i = @ + 1]
             ELSE [phase |-> "spawns", i |-> 1]
    /\ UNCHANGED <<reserved_tasks, world, game_time, game, lastProposal, nProposed,
                   historyVars, engineVars>>

\* game_loop, second loop, one spawn: spawn a creep where the room affords it
RunSpawnStep ==
    /\ pc.phase = "spawns"
    /\ pc.i <= Len(game.spawns)
    /\ ~aborted
    /\ LET spawn == game.spawns[pc.i]
       IN  /\ aborted' = ~spawn.room
           /\ commands' =
                 IF spawn.room /\ game.energy_available >= BodyCost(StarterBody)
                 THEN Append(commands, Command(spawn.name, "spawn_creep", game_time))
                 ELSE commands
    /\ pc' = [pc EXCEPT !.i = @ + 1]
    /\ UNCHANGED <<reserved_tasks, world, game_time, game, lastProposal, nProposed,
                   creep_targets, lastRun, historyVars, engineVars>>

\* game_loop returns; the next tick calls it again on what the world shows then
EndLoop ==
    /\ pc.phase = "spawns"
    /\ pc.i > Len(game.spawns)
    /\ ~aborted
    /\ game_time < MaxTime
    /\ game_time' = game_time + 1
    /\ game' \in Games
    /\ pc' = StartOf(game')
    /\ commands' = <<>>
    /\ lastRun' = NoRun
    /\ UNCHANGED <<reserved_tasks, world, aborted, lastProposal, nProposed,
                   creep_targets, historyVars, engineVars>>

RunCreepAny == \E r \in ReturnCodes : RunCreepStep(r)

NextStarter == RunCreepAny \/ RunSpawnStep \/ EndLoop

SpecStarter == InitStarter /\ [][NextStarter]_vars

\* the task engine and the starter loop side by side
InitBoth == InitTick \/ InitStarter

NextBoth == NextTick \/ NextStarter

SpecBoth == InitBoth /\ [][NextBoth]_vars

----------------------------------------------------------------------------
(* Claims about the tick                                                   *)

RECURSIVE SumAmounts(_, _)
\* the sum of reservation_amount over the entries of a queue that hold the task
SumAmounts(queue, task) ==
    IF queue = <<>> THEN 0
    ELSE (IF Head(queue).task = task THEN Head(queue).amount ELSE 0)
         + SumAmounts(Tail(queue), task)

RECURSIVE QueuedAmount(_, _)
\* the same sum over the queues of the workers from id on
QueuedAmount(id, task) ==
    IF id > NumAgents THEN 0
    ELSE (IF id \in DOMAIN workers THEN SumAmounts(workers[id].queue, task) ELSE 0)
         + QueuedAmount(id + 1, task)

QueuedTasks ==
    UNION {{workers[id].queue[i].task : i \in 1..Len(workers[id].queue)} :
             id \in DOMAIN workers}

QueuedUids ==
    UNION {{workers[id].queue[i].uid : i \in 1..Len(workers[id].queue)} :
             id \in DOMAIN workers}

LedgerMatchesQueues ==
    \A task \in QueuedTasks \cup DOMAIN reserved_tasks :
        Current(reserved_tasks, task) = QueuedAmount(1, task)

\* C3: from a tick's proposal phase to the start of the next tick's, the
\* ledger entry of every task identity is the sum of reservation_amount over
\* the queue entries that reference it.
LedgerQueueAgreement == phase \in {"propose", "execute", "move", "end"} => LedgerMatchesQueues

\* C7: when the first proposal of a tick runs, the ledger holds exactly the
\* reservations of the queue entries carried over from the tick before.
LedgerRebuiltBeforeProposals == (phase = "propose" /\ cursor = 1) => LedgerMatchesQueues

\* C4: the claim of an entry is released exactly once, when the entry leaves
\* the queue: never while it is queued, never twice, never left registered.
ReleasedExactlyOnce ==
    \A u \in DOMAIN released : released[u] = (IF u \in QueuedUids THEN 0 ELSE 1)

\* C4 witness: a worker was destroyed with two entries queued, the pushed
\* front entry and the reserved entry behind it, while another worker's entry
\* is still queued and not released
ReleasedExactlyOnceWitness ==
    /\ lastResult.result.kind = "DestroyWorker"
    /\ lastResult.worker \notin DOMAIN workers
    /\ Len(lastResult.queue) = 2
    /\ lastResult.queue[2].amount > 0
    /\ \A i \in 1..2 : released[lastResult.queue[i].uid] = 1
    /\ Current(reserved_tasks, lastResult.queue[2].task) = 0
    /\ \E u \in QueuedUids : released[u] = 0

\* an execution step of worker id
Executes(id) ==
    /\ phase = "execute"
    /\ cursor = id
    /\ id \in DOMAIN workers
    /\ workers[id].queue # <<>>
    /\ cursor' # cursor \/ phase' # phase

OthersKept(id) ==
    \A other \in (DOMAIN workers) \ {id} :
        other \in DOMAIN workers' /\ workers'[other] = workers[other]

\* the ledger after releasing amount from task, every other entry as it was
ReleasedFrom(task, amount) ==
    /\ Current(reserved_tasks', task) = Max(Current(reserved_tasks, task) - amount, 0)
    /\ \A t \in ((DOMAIN reserved_tasks) \cup (DOMAIN reserved_tasks')) \ {task} :
          Current(reserved_tasks', t) = Current(reserved_tasks, t)

\* the engine runs a reference-bearing task whose target does not resolve
EngineStaleTargetCompletes ==
    \A id \in AgentIds :
        (/\ Executes(id)
         /\ Head(workers[id].queue).task.kind \in ReferenceKinds
         /\ ~TargetResolves(world, Head(workers[id].queue).task))
        => /\ lastResult'.result = Complete
           /\ lastResult'.entry = Head(workers[id].queue)
           /\ id \in DOMAIN workers'
           /\ workers'[id].queue = Tail(workers[id].queue)
           /\ released'[Head(workers[id].queue).uid] = 1
           /\ ReleasedFrom(Head(workers[id].queue).task, Head(workers[id].queue).amount)
           /\ goals' = goals
           /\ issued' = issued
           /\ aborted' = aborted

\* the starter loop runs a creep whose locked target does not resolve
StarterStaleLockRemoved ==
    (/\ pc.phase = "creeps"
     /\ pc' # pc
     /\ ~game.creeps[pc.i].spawning
     /\ game.creeps[pc.i].name \in DOMAIN creep_targets
     /\ ~Resolve(game, creep_targets[game.creeps[pc.i].name].id))
    => /\ game.creeps[pc.i].name \notin DOMAIN creep_targets'
       /\ commands' = commands
       /\ aborted' = aborted

\* C9: running a reference-bearing task whose target no longer resolves ends
\* it in that tick: the result is Complete, the entry (the lock) is removed
\* and its reservation released; no StillWorking, no action, no movement goal
\* or move, no failure.
StaleTargetCompletes == [][EngineStaleTargetCompletes /\ StarterStaleLockRemoved]_vars

\* C9 witness: a reserved repair carried over from the tick before was
\* completed because its structure is gone
StaleTargetWitness ==
    /\ lastResult.stale
    /\ lastResult.entry.task.kind = "Repair"
    /\ lastResult.entry.amount > 0
    /\ lastResult.result.kind = "Complete"
    /\ game_time > StartTime

\* C10: a Complete removes exactly the front entry and releases exactly its
\* reservation amount, the rest of the queue keeps its order, and a worker
\* whose queue is empty gets a proposal in the next proposal pass.
CompletePopsFront ==
    /\ [][\A id \in AgentIds :
            (Executes(id) /\ lastResult'.result.kind = "Complete")
            => /\ id \in DOMAIN workers'
               /\ workers'[id].queue = Tail(workers[id].queue)
               /\ ReleasedFrom(Head(workers[id].queue).task,
                               Head(workers[id].queue).amount)
               /\ OthersKept(id)]_vars
    /\ [][\A id \in AgentIds :
            (/\ phase = "propose" /\ cursor = id /\ id \in DOMAIN workers
             /\ workers[id].queue = <<>>
             /\ cursor' # cursor \/ phase' # phase)
            => (id \in DOMAIN workers' /\ Len(workers'[id].queue) = 1)]_vars
    /\ [](phase = "execute" =>
            \A id \in DOMAIN workers : id >= cursor => workers[id].queue # <<>>)

\* C10 witness: a Complete left a second entry at the front, and a worker
\* whose queue a Complete had emptied holds a new entry in the next tick
CompletePopsFrontWitness ==
    /\ lastResult.result.kind = "Complete"
    /\ lastResult.worker \in DOMAIN workers
    /\ lastResult.entry.amount > 0
    /\ Len(workers[lastResult.worker].queue) = 1
    /\ game_time > StartTime

\* C11: handling StillWorking or MoveMeTo leaves the worker's queue, every
\* other worker and the whole ledger as they were; MoveMeTo adds its goal to
\* the buffer and nothing else, StillWorking leaves the buffer alone, and the
\* buffer is emptied by the movement phase of the same tick.
KeepingResultsFrame ==
    /\ [][\A id \in AgentIds :
            (Executes(id) /\ lastResult'.result.kind \in {"StillWorking", "MoveMeTo"})
            => /\ workers' = workers
               /\ reserved_tasks' = reserved_tasks
               /\ released' = released
               /\ goals' = IF lastResult'.result.kind = "MoveMeTo"
                           THEN Append(goals, [worker |-> id,
                                               goal |-> lastResult'.result.goal])
                           ELSE goals]_vars
    /\ [](phase \in {"end", "begin", "propose"} => goals = <<>>)

\* C11 witness: a reserved entry whose worker asked to be moved is still at
\* the front of its queue, the goal is buffered and the claim still registered
KeepingResultsWitness ==
    /\ lastResult.result.kind = "MoveMeTo"
    /\ lastResult.entry.amount > 0
    /\ lastResult.worker \in DOMAIN workers
    /\ workers[lastResult.worker].queue = lastResult.queue
    /\ \E i \in 1..Len(goals) : goals[i] = [worker |-> lastResult.worker,
                                            goal |-> lastResult.result.goal]
    /\ Current(reserved_tasks, lastResult.entry.task) >= lastResult.entry.amount
    /\ released[lastResult.entry.uid] = 0

\* the entry a push result inserts: the result's task, no reservation
IsPushed(entry, result) == entry.task = result.task /\ entry.amount = 0

\* C12: AddTaskToFront keeps the front entry and inserts the new task ahead of
\* it; CompleteAddTaskToFront removes the front entry, releases its
\* reservation and puts the new task at the front; CompleteAddTaskToBack
\* removes the front entry, releases its reservation and appends the new task;
\* the other entries keep their order and nothing is added to the ledger.
PushVariants ==
    [][\A id \in AgentIds :
         (Executes(id) /\ Pushes(lastResult'.result))
         => LET queue == workers[id].queue
                after == workers'[id].queue
                result == lastResult'.result
            IN  /\ id \in DOMAIN workers'
                /\ OthersKept(id)
                /\ \A t \in DOMAIN reserved_tasks' :
                      Current(reserved_tasks', t) <= Current(reserved_tasks, t)
                /\ result.kind = "AddTaskToFront" =>
                      /\ Len(after) = Len(queue) + 1
                      /\ IsPushed(Head(after), result)
                      /\ Tail(after) = queue
                      /\ reserved_tasks' = reserved_tasks
                      /\ released' = Append(released, 0)
                /\ result.kind = "CompleteAddTaskToFront" =>
                      /\ Len(after) = Len(queue)
                      /\ IsPushed(Head(after), result)
                      /\ Tail(after) = Tail(queue)
                      /\ ReleasedFrom(Head(queue).task, Head(queue).amount)
                      /\ released'[Head(queue).uid] = 1
                /\ result.kind = "CompleteAddTaskToBack" =>
                      /\ Len(after) = Len(queue)
                      /\ IsPushed(after[Len(after)], result)
                      /\ SubSeq(after, 1, Len(after) - 1) = Tail(queue)
                      /\ ReleasedFrom(Head(queue).task, Head(queue).amount)
                      /\ released'[Head(queue).uid] = 1]_vars

\* C12 witness: CompleteAddTaskToBack on a queue of two entries left the
\* second entry at the front and the new task behind it
PushVariantsWitness ==
    /\ lastResult.result.kind = "CompleteAddTaskToBack"
    /\ Len(lastResult.queue) = 2
    /\ lastResult.queue[2].amount > 0
    /\ lastResult.worker \in DOMAIN workers
    /\ Len(workers[lastResult.worker].queue) = 2
    /\ workers[lastResult.worker].queue[1] = lastResult.queue[2]
    /\ IsPushed(workers[lastResult.worker].queue[2], lastResult.result)

ActionKinds ==
    {"HarvestEnergyUntilFull", "HarvestEnergyForever", "Upgrade", "Build", "Repair",
     "TakeFromResource", "TakeFromStructure", "DeliverToStructure"}

\* the engine part of C17: an action task whose resolved target is out of
\* range gives a move request with a goal toward the target, the entry stays
\* at the front, and the execution pass sends no move command
EngineMoveDecoupled ==
    [][/\ \A id \in AgentIds :
            (/\ Executes(id)
             /\ Head(workers[id].queue).task.kind \in ActionKinds
             /\ ~lastResult'.stale
             /\ [worker |-> id, command |-> "action"] \notin issued')
            => /\ lastResult'.result.kind = "MoveMeTo"
               /\ lastResult'.result.goal.pos = Head(workers[id].queue).task.id
               /\ goals' = Append(goals, [worker |-> id,
                                          goal |-> lastResult'.result.goal])
               /\ workers'[id].queue = workers[id].queue
       /\ phase = "execute"
            => {c \in issued' : c.command = "move"} = {c \in issued : c.command = "move"}
      ]_vars

\* the starter loop part of C17: running a creep sends no move command
StarterMoveDecoupled ==
    [][pc.phase = "creeps"
         => \A i \in (DOMAIN commands') \ (DOMAIN commands) :
               commands'[i].call # "move_to"]_vars

\* C17: an action task out of range of its resolved target asks for a move
\* and keeps its place; no move command reaches the world while the agents
\* act, only in the movement phase.
MoveDecoupled == EngineMoveDecoupled /\ StarterMoveDecoupled

MoveCommands(sent) == {c \in sent : c.command = "move"}

\* C18: a movement phase that reads usage above the high threshold or a
\* reserve below the low threshold sends no move command, however many goals
\* are buffered; otherwise every buffered goal gets its command.
MovementGating ==
    [][(phase = "move" /\ phase' = "end")
         => IF cpu'.usage_high \/ cpu'.bucket_low
            THEN MoveCommands(issued') = {}
            ELSE MoveCommands(issued') =
                    {[worker |-> goals[i].worker, command |-> "move"] :
                        i \in 1..Len(goals)}]_vars

\* C18 witness: a worker asked to be moved in this tick, the reserve was low
\* with usage below its threshold, and the phase is over without a move
MovementGatingWitness ==
    /\ phase = "end"
    /\ game_time = StartTime
    /\ lastResult.result.kind = "MoveMeTo"
    /\ cpu.bucket_low /\ ~cpu.usage_high
    /\ MoveCommands(issued) = {}
    /\ goals = <<>>

\* the engine part of C19: a proposal is made before any task has acted or
\* moved in the tick, an execution before any move command of the tick, and
\* the passes go worker by worker from the first to the last
EnginePhaseOrdering ==
    [][/\ nProposed' = nProposed + 1 => (phase = "propose" /\ issued = {})
       /\ lastResult' # lastResult => (phase = "execute" /\ MoveCommands(issued) = {})
       /\ MoveCommands(issued') # MoveCommands(issued) => (phase = "move" \/ phase = "begin")
       /\ (phase = "propose" /\ phase' = "execute") => cursor = NumAgents
       /\ (phase = "execute" /\ phase' = "move") => cursor = NumAgents]_vars

\* the starter loop part of C19: a creep takes a new lock only before any
\* creep has acted on a lock in the tick
StarterPhaseOrdering ==
    [][(/\ pc.phase = "creeps"
        /\ \E name \in DOMAIN creep_targets' : name \notin DOMAIN creep_targets)
       => commands = <<>>]_vars

\* C19: within a tick every proposal comes before the first execution and
\* every execution before the first move command; the proposals and the
\* executions of different agents are not interleaved.
PhaseOrdering == EnginePhaseOrdering /\ StarterPhaseOrdering

SpawnCommands(sent) == {i \in DOMAIN sent : sent[i].call = "spawn_creep"}

\* C20: a spawn command is sent only once every creep of the tick has been
\* run, no creep is run after it in the same tick, and a creep that is still
\* spawning is not acted on.
SpawnAfterActs ==
    [][/\ SpawnCommands(commands') # SpawnCommands(commands)
            => (pc.phase = "spawns" \/ commands' = <<>>)
       /\ pc.phase = "creeps"
            => /\ SpawnCommands(commands) = {}
               /\ SpawnCommands(commands') = {}
       /\ (pc.phase = "spawns" /\ pc'.phase = "spawns")
            => /\ creep_targets' = creep_targets
               /\ \A i \in (DOMAIN commands') \ (DOMAIN commands) :
                     commands'[i].call = "spawn_creep"
       /\ (pc.phase = "creeps" /\ game.creeps[pc.i].spawning)
            => (creep_targets' = creep_targets /\ commands' = commands)]_vars

\* C20 witness: a spawn command follows the commands of the tick's creeps, and
\* the last creep of the tick has been run
SpawnAfterActsWitness ==
    /\ pc.phase = "spawns"
    /\ Len(commands) >= 2
    /\ commands[1].call # "spawn_creep"
    /\ commands[Len(commands)].call = "spawn_creep"
    /\ game.creeps # <<>>
    /\ lastRun.name = game.creeps[Len(game.creeps)].name

\* the indefinite idle an agent gets while its room is not observable
IndefiniteIdle == IdleUntil(U32Max)

\* C22: a proposal made while the room is not observable returns the
\* unreserved indefinite idle, and once the room is observable again and the
\* execution pass of the tick is over no agent is still held by that idle.
NoVisibilityRecovery ==
    /\ (nProposed > 0 /\ lastProposal.ok /\ ~world.visible)
          => (lastProposal.entry.task = IndefiniteIdle /\ lastProposal.entry.amount = 0)
    /\ (world.visible /\ phase \in {"move", "end"})
          => \A id \in DOMAIN workers :
                \/ workers[id].queue = <<>>
                \/ Head(workers[id].queue).task # IndefiniteIdle

\* the engine runs an entry whose action the world rejects
EngineRejectionCompletes ==
    \A id \in AgentIds :
        (Executes(id) /\ lastResult'.rejected)
        => /\ lastResult'.result = Complete
           /\ id \in DOMAIN workers'
           /\ workers'[id].queue = Tail(workers[id].queue)
           /\ released'[Head(workers[id].queue).uid] = 1
           /\ ReleasedFrom(Head(workers[id].queue).task, Head(workers[id].queue).amount)
           /\ OthersKept(id)
           /\ aborted' = aborted

\* the starter loop runs a creep whose upgrade or harvest the world answers
\* with a code other than Ok, and other than the NotInRange of an upgrade
StarterRejectionRemovesLock ==
    (/\ pc.phase = "creeps"
     /\ pc' # pc
     /\ lastRun'.locked
     /\ \E i \in DOMAIN lastRun'.commands :
           lastRun'.commands[i].call \in {"upgrade_controller", "harvest"}
     /\ lastRun'.code # "Ok"
     /\ ~(lastRun'.target.kind = "Upgrade" /\ lastRun'.code = "NotInRange"))
    => /\ lastRun'.name \notin DOMAIN creep_targets'
       /\ \A n \in (DOMAIN creep_targets) \ {lastRun'.name} :
             n \in DOMAIN creep_targets' /\ creep_targets'[n] = creep_targets[n]
       /\ aborted' = aborted
       /\ pc' = IF pc.i < Len(game.creeps) THEN [pc EXCEPT !.i = @ + 1]
                ELSE [phase |-> "spawns", i |-> 1]

\* C23: an action the world rejects with a code other than success, and
\* other than the out-of-range answer that leads to a move, ends the task in
\* that tick: the entry (the lock) is removed and its reservation released,
\* the other agents keep theirs, and the tick goes on.
RejectionEndsTask == [][EngineRejectionCompletes /\ StarterRejectionRemovesLock]_vars

\* C23 witness: a creep's harvest was rejected for want of something, its
\* lock is gone and the loop has moved on
RejectionWitness ==
    /\ pc.phase \in {"creeps", "spawns"}
    /\ game.creeps # <<>>
    /\ lastRun.locked
    /\ lastRun.target.kind = "Harvest"
    /\ lastRun.code = "NotEnough"
    /\ lastRun.commands # <<>>
    /\ lastRun.name \notin DOMAIN creep_targets
    /\ ~aborted

\* C24: no agent, spawn or fixed facility stops the tick: the loop is never
\* ended by a panic, so every later creep and spawn of the tick is still run.
TickRunsToEnd == ~aborted

\* game_loop has run every creep and every spawn of the tick
LoopDone == pc.phase = "spawns" /\ pc.i > Len(game.spawns)

\* C25: when game_loop is done with a tick, CREEP_TARGETS holds locks only for
\* creeps that game::creeps() reported in that tick.
RegistryReconciled ==
    LoopDone => \A name \in DOMAIN creep_targets :
                    \E i \in DOMAIN game.creeps : game.creeps[i].name = name

\* the worker of the run_task specification runs its front entry of kind
RunsFront(kind) ==
    /\ 1 \in DOMAIN workers
    /\ workers[1].queue # <<>>
    /\ Head(workers[1].queue).task.kind = kind
    /\ game_time' = game_time + 1
    /\ phase = "off"

\* C27: IdleUntil(t) run at a tick gives Complete exactly when the tick is at
\* least t and StillWorking otherwise; with the tick advancing by one, the
\* entry is still queued after a run only while the tick has not passed t,
\* and the idle until u32::MAX has only ever given StillWorking.
IdleUntilCompletes ==
    /\ [][RunsFront("IdleUntil")
            => lastResult'.result =
                  IF game_time >= Head(workers[1].queue).task.n
                  THEN Complete ELSE StillWorking]_vars
    /\ []((/\ phase = "off" /\ lastResult.worker = 1
           /\ lastResult.entry.task.kind = "IdleUntil")
          => /\ workers[1].queue # <<>> => game_time <= lastResult.entry.task.n
             /\ workers[1].queue = <<>> => game_time > lastResult.entry.task.n
             /\ (lastResult.entry.task = IndefiniteIdle /\ game_time <= U32Max)
                   => lastResult.result = StillWorking)

\* C27 witness: an idle that was kept for at least one tick has completed at
\* its tick and left the queue
IdleUntilWitness ==
    /\ phase = "off"
    /\ lastResult.worker = 1
    /\ lastResult.entry.task.kind = "IdleUntil"
    /\ lastResult.entry.task.n > StartTime + 1
    /\ lastResult.entry.task.n < RunHorizon
    /\ game_time = lastResult.entry.task.n + 1
    /\ lastResult.result = Complete
    /\ workers[1].queue = <<>>

\* C28: MoveToPosition(p, r) run by a worker gives Complete exactly when the
\* worker's range to p is at most r, and otherwise MoveMeTo with the goal
\* (p, r, the worker's movement profile, avoid_creeps false); never
\* StillWorking. The entry leaves the queue on Complete only.
MoveToPositionCompletes ==
    /\ [][RunsFront("MoveToPosition")
            => /\ lastResult'.result =
                     IF workers[1].range <= Head(workers[1].queue).task.n
                     THEN Complete
                     ELSE MoveMeTo([pos |-> Head(workers[1].queue).task.id,
                                    range |-> Head(workers[1].queue).task.n,
                                    profile |-> IF workers[1].role = "startup"
                                                THEN "PlainsOneToOne" ELSE "Default",
                                    avoid_creeps |-> FALSE])
               /\ workers'[1].queue = IF workers[1].range <= Head(workers[1].queue).task.n
                                      THEN <<>> ELSE workers[1].queue]_vars
    /\ []((phase = "off" /\ lastResult.worker = 1
           /\ lastResult.entry.task.kind = "MoveToPosition")
          => lastResult.result.kind \in {"Complete", "MoveMeTo"})

\* C28 witness: a startup worker that was out of range at tick u32::MAX - 2
\* and asked to be moved has arrived in the next tick and completed the task
MoveToPositionWitness ==
    /\ phase = "off"
    /\ lastResult.worker = 1
    /\ workers[1].role = "startup"
    /\ lastResult.entry.task = MoveToPosition("p2", 1)
    /\ lastResult.result = Complete
    /\ workers[1].queue = <<>>
    /\ game_time = U32Max

\* the locks of the creeps other than name are what they were
OtherLocksKept(name) ==
    /\ (DOMAIN creep_targets') \ {name} = (DOMAIN creep_targets) \ {name}
    /\ \A n \in (DOMAIN creep_targets) \ {name} : creep_targets'[n] = creep_targets[n]

\* run_creep found no lock for the creep: no command is sent, and the lock
\* there is afterwards is Upgrade of the room's controller for a creep that
\* holds energy, else Harvest of the first active source
VacantOnlyInserts(creep) ==
    /\ commands' = commands
    /\ creep.name \in DOMAIN creep_targets'
          => /\ creep.room
             /\ creep_targets'[creep.name] \in
                   IF creep.store.used > 0
                   THEN {CreepTargetUpgrade(game.structures[i].id) :
                            i \in {k \in DOMAIN game.structures :
                                     /\ game.structures[k].type = "controller"
                                     /\ \A j \in 1..(k - 1) :
                                           game.structures[j].type # "controller"}}
                   ELSE {CreepTargetHarvest(game.sources_active[i]) :
                            i \in (DOMAIN game.sources_active) \cap {1}}
    /\ creep.name \notin DOMAIN creep_targets'
          => \/ ~creep.room
             \/ /\ creep.store.used > 0
                /\ \A i \in DOMAIN game.structures :
                      game.structures[i].type # "controller"
             \/ /\ creep.store.used = 0
                /\ game.sources_active = <<>>

\* run_creep found a lock for the creep: the lock is kept as it is or removed,
\* never replaced, and it is removed exactly where the guard of its kind
\* fails, the target does not resolve or the action is rejected
OccupiedKeepsOrRemoves(creep) ==
    LET target == creep_targets[creep.name]
        guard == \/ target.kind = "Upgrade" /\ creep.store.used > 0
                 \/ target.kind = "Harvest" /\ creep.store.free > 0
        sent == SubSeq(commands', Len(commands) + 1, Len(commands'))
        acted == \E i \in DOMAIN sent :
                    sent[i].call \in {"upgrade_controller", "harvest"}
    IN  /\ creep.name \in DOMAIN creep_targets'
           => creep_targets'[creep.name] = target
        /\ creep.name \notin DOMAIN creep_targets'
           => \/ ~guard
              \/ ~Resolve(game, target.id)
              \/ acted /\ \A i \in DOMAIN sent : sent[i].call # "move_to"
        /\ (~guard \/ ~Resolve(game, target.id))
           => (creep.name \notin DOMAIN creep_targets' /\ sent = <<>>)

\* C32: in the starter loop a creep is never given a target and acted on in
\* the same tick: where run_creep finds no lock it only inserts one (Upgrade
\* for a creep holding energy, else Harvest of the first active source) and
\* sends no action or move; where it removes a lock it inserts no new one; the
\* lock of a spawning creep is left unchanged.
LockThenActNextTick ==
    [][(pc.phase = "creeps" /\ pc' # pc)
          => LET creep == game.creeps[pc.i]
             IN  /\ OtherLocksKept(creep.name)
                 /\ creep.spawning
                       => (creep_targets' = creep_targets /\ commands' = commands)
                 /\ (~creep.spawning /\ creep.name \notin DOMAIN creep_targets)
                       => VacantOnlyInserts(creep)
                 /\ (~creep.spawning /\ creep.name \in DOMAIN creep_targets)
                       => OccupiedKeepsOrRemoves(creep)]_vars

\* C32 witness: the creep just run had no lock, has one now, and no command
\* of the tick so far is its own
LockThenActWitness ==
    /\ pc.phase = "creeps"
    /\ pc.i > 1
    /\ ~game.creeps[pc.i - 1].spawning
    /\ ~lastRun.locked
    /\ game.creeps[pc.i - 1].name \in DOMAIN creep_targets
    /\ \A i \in DOMAIN commands : commands[i].by # game.creeps[pc.i - 1].name

----------------------------------------------------------------------------
(* The ledger under arbitrary claim / release sequences                    *)

MaxOps == 4

LedgerTasks == {Repair("s1"), TakeFromResource("r1")}

LedgerAmounts == {0, 1, 2, U32Max - 1, U32Max}

NoOp == [op |-> "none", task |-> WaitToSpawn, amount |-> 0]

InitLedger ==
    /\ StarterIdle
    /\ reserved_tasks = EmptyLedger
    /\ net = [t \in LedgerTasks |-> 0]
    /\ lastOp = NoOp
    /\ nOps = 0
    /\ PassIdle
    /\ EngineIdle

Claim(task, amount) ==
    /\ nOps < MaxOps
    /\ reserved_tasks' = AddReservationWithAmount(reserved_tasks, task, amount)
    /\ net' = [net EXCEPT ![task] = @ + amount]
    /\ lastOp' = [op |-> "claim", task |-> task, amount |-> amount]
    /\ nOps' = nOps + 1
    /\ UNCHANGED <<passVars, engineVars, starterVars>>

Release(task, amount) ==
    /\ nOps < MaxOps
    /\ reserved_tasks' = RemoveReservation(reserved_tasks, task, amount)
    /\ net' = [net EXCEPT ![task] = @ - amount]
    /\ lastOp' = [op |-> "release", task |-> task, amount |-> amount]
    /\ nOps' = nOps + 1
    /\ UNCHANGED <<passVars, engineVars, starterVars>>

ClaimAny == \E task \in LedgerTasks, amount \in LedgerAmounts : Claim(task, amount)

ReleaseAny == \E task \in LedgerTasks, amount \in LedgerAmounts : Release(task, amount)

NextLedger == ClaimAny \/ ReleaseAny

SpecLedger == InitLedger /\ [][NextLedger]_vars

----------------------------------------------------------------------------
(* Claims about the ledger                                                 *)

\* C1: after any sequence of claims and releases from the empty ledger, the
\* value of every identity is max(0, claimed - released), and the identity is
\* a key of the map exactly when that value is non-zero.
LedgerConservation ==
    \A t \in LedgerTasks :
        /\ Current(reserved_tasks, t) = Max(0, net[t])
        /\ (t \in DOMAIN reserved_tasks) <=> (Max(0, net[t]) # 0)

\* C5: a claim sets the entry to min(old + amount, u32::MAX), an absent entry
\* counting as 0 and being inserted, and leaves every other entry as it was.
ClaimSaturates ==
    [][(nOps' = nOps + 1 /\ lastOp'.op = "claim") =>
        /\ lastOp'.task \in DOMAIN reserved_tasks'
        /\ reserved_tasks'[lastOp'.task]
             = Min(Current(reserved_tasks, lastOp'.task) + lastOp'.amount, U32Max)
        /\ reserved_tasks'[lastOp'.task] <= U32Max
        /\ \A t \in LedgerTasks \ {lastOp'.task} :
              /\ (t \in DOMAIN reserved_tasks') <=> (t \in DOMAIN reserved_tasks)
              /\ Current(reserved_tasks', t) = Current(reserved_tasks, t)]_vars

\* C5 witness: a claim has hit the u32 ceiling while another identity is held
ClaimSaturatesWitness ==
    /\ lastOp.op = "claim"
    /\ lastOp.amount > 0
    /\ Current(reserved_tasks, lastOp.task) = U32Max
    /\ net[lastOp.task] > U32Max
    /\ \E t \in LedgerTasks \ {lastOp.task} : Current(reserved_tasks, t) > 0

\* C6: a release sets the entry to max(old - amount, 0) and removes it at
\* zero; releasing more than is recorded, or an absent identity, leaves the
\* identity absent; no other entry changes.
ReleaseSaturates ==
    [][(nOps' = nOps + 1 /\ lastOp'.op = "release") =>
        LET old == Current(reserved_tasks, lastOp'.task)
            new == Max(old - lastOp'.amount, 0)
        IN  /\ Current(reserved_tasks', lastOp'.task) = new
            /\ (lastOp'.task \in DOMAIN reserved_tasks') <=> (new # 0)
            /\ \A t \in LedgerTasks \ {lastOp'.task} :
                  /\ (t \in DOMAIN reserved_tasks') <=> (t \in DOMAIN reserved_tasks)
                  /\ Current(reserved_tasks', t) = Current(reserved_tasks, t)]_vars

\* C6 witness: a release larger than the recorded claim has removed the entry
\* while another identity is held
ReleaseSaturatesWitness ==
    /\ lastOp.op = "release"
    /\ lastOp.task \notin DOMAIN reserved_tasks
    /\ net[lastOp.task] < 0
    /\ net[lastOp.task] + lastOp.amount > 0
    /\ \E t \in LedgerTasks \ {lastOp.task} : Current(reserved_tasks, t) > 0

====
